---- MODULE Spec2Model ----
(***************************************************************************)
(* Authentication and session lifecycle engine of kap-theorem/auth.        *)
(*                                                                         *)
(* The state is the credential store (the clients, users and sessions      *)
(* tables behind gorm), the wall clock, the generator of refresh values,   *)
(* the access tokens handed out so far and the response of the last RPC    *)
(* that changed a table.  Every RPC handler is one action: the handler's   *)
(* whole body, store calls included.  A handler's response and the tables  *)
(* it leaves are computed by its ...Outcome operator, which the action     *)
(* applies; the response of a call that changes no table is the value of   *)
(* the Outcome operator in the state the call ran in.                      *)
(*                                                                         *)
(* The clients table is seeded before the first call, as seedClient does   *)
(* in the tests; the calls modelled here never write it.                   *)
(*                                                                         *)
(* Time is counted in hours.  A refresh value is a natural number >= 1     *)
(* (GenerateRefreshToken draws fresh random bytes); 0 is the empty string. *)
(* An e-mail address is a sequence of one-character strings, so that the   *)
(* address pattern of isValidEmail is computed and not assumed.            *)
(***************************************************************************)
EXTENDS Integers, Sequences, FiniteSets, TLC

\* ------------------------------------------------------------------ bounds
MaxRefresh  == 2       \* refresh values generated by Login and Refresh
MaxInstant  == 5       \* instants of Instants at which a call can be made
MaxCalls    == 3       \* calls the goroutines of SpecConc begin
MaxConcRefresh == 3    \* refresh values generated in SpecConc

\* ------------------------------------------------------- program constants
AccessTokenTTL == 24                  \* hours an access token is valid
SessionTTL     == 7 * 24              \* hours: time.Now().Add(7 * 24 * time.Hour)
MinPasswordLen == 8                   \* len(req.Password) < 8

\* ------------------------------------------------------------ input values
NoRefresh == 0                        \* the empty refresh_token string
Forged    == NoRefresh - 1            \* a refresh value the service never made
\* The instants (hours) at which calls are made: inside an access token's
\* life, at its end, at the end of a session's life and past it.
Instants == <<0, 12, 24, 168, 180, 192, 336, 348, 360>>

SeedClients    == {"c1", "c2"}                  \* the registered clients
ClientIdInputs == SeedClients \cup {"zz"}       \* "zz" is never registered
UserIdPool     == <<"u1", "u2", "u3", "u4">>    \* values GenerateUUID returns
UserNames      == {"alice"}
UserAgents     == {"web"}
Procs          == {"p1", "p2"}                  \* goroutines serving calls
OldPassword    == "password123"
NewPassword    == "hunter2hunter2"
Passwords      == {OldPassword, NewPassword}

E1        == <<"a", "@", "x", ".", "i", "o">>
E2        == <<"b", "@", "x", ".", "i", "o">>
BadEmail  == <<"a", "@", "x">>
NoEmail   == <<>>
Emails      == {E1, E2}
PaddedEmail == <<" ">> \o E1             \* " a@x.io"

VARIABLES
    clients,      \* table clients: set of rows
    users,        \* table users: set of rows
    sessions,     \* table sessions: set of rows (soft-deleted rows included)
    now,          \* time.Now(), in hours
    nextRefresh,  \* the next value GenerateRefreshToken returns
    issued,       \* the access tokens returned to callers so far
    resp,         \* the response of the last RPC that changed a table or issued
    failAt,       \* which store call of the next handler fails (0: none)
    pc,           \* per goroutine serving a call: the statement it is at
    loc,          \* per goroutine: the request and the handler's local variables
    calls,        \* the number of calls begun by those goroutines
    done,         \* the calls those goroutines have answered
    sweeper       \* CleanupService: its stop channel, WaitGroup, goroutine, Stop

\* the goroutines that serve calls one store statement at a time
conc == <<pc, loc, calls, done, sweeper>>

vars == <<clients, users, sessions, now, nextRefresh, issued, resp, failAt, conc>>

\* ------------------------------------------------------------- small helpers
Letters ==
    {"a","b","c","d","e","f","g","h","i","j","k","l","m",
     "n","o","p","q","r","s","t","u","v","w","x","y","z",
     "A","B","C","D","E","F","G","H","I","J","K","L","M",
     "N","O","P","Q","R","S","T","U","V","W","X","Y","Z"}
Digits == {"0","1","2","3","4","5","6","7","8","9"}
LocalChars  == Letters \cup Digits \cup {".", "_", "%", "+", "-"}
DomainChars == Letters \cup Digits \cup {".", "-"}

AllIn(s, lo, hi, chars) == \A k \in lo..hi : s[k] \in chars

RECURSIVE TrimLeft(_)
TrimLeft(s) == IF s /= <<>> /\ Head(s) = " " THEN TrimLeft(Tail(s)) ELSE s
RECURSIVE TrimRight(_)
TrimRight(s) ==
    IF s /= <<>> /\ s[Len(s)] = " " THEN TrimRight(SubSeq(s, 1, Len(s) - 1)) ELSE s
TrimSpace(s) == TrimRight(TrimLeft(s))

\* ^[a-zA-Z0-9._%+-]+@[a-zA-Z0-9.-]+\.[a-zA-Z]{2,}$
emailRegex(s) ==
    LET n == Len(s)
    IN  \E at \in 1..n : \E dot \in 1..n :
            /\ 1 < at /\ at + 1 < dot /\ dot + 2 <= n
            /\ s[at] = "@" /\ s[dot] = "."
            /\ AllIn(s, 1, at - 1, LocalChars)
            /\ AllIn(s, at + 1, dot - 1, DomainChars)
            /\ AllIn(s, dot + 1, n, Letters)

\* the pattern is matched against the trimmed address
isValidEmail(email) == emailRegex(TrimSpace(email))

\* ---------------------------------------------------------- password hasher
HashPassword(password) == <<"bcrypt", password>>
CheckPasswordHash(password, hash) == hash = HashPassword(password)

\* ------------------------------------------------------------- token codec
\* A signed token is the record of its claims; sig is "ok" for a token the
\* service signed, "bad" for an altered one and "none" for the empty string.
NoAccessToken ==
    [userId |-> "", username |-> "", clientId |-> "", refreshToken |-> NoRefresh,
     exp |-> 0, sig |-> "none"]

GenerateJWTToken(userId, username, clientId, refreshToken) ==
    [userId |-> userId, username |-> username, clientId |-> clientId,
     refreshToken |-> refreshToken, exp |-> now + AccessTokenTTL, sig |-> "ok"]

Tamper(token) == [token EXCEPT !.sig = "bad"]

\* "ok" with the claims, or the error
ValidateJWTToken(token) ==
    IF token.sig /= "ok" THEN [err |-> "TokenInvalid"]
    ELSE IF ~(now < token.exp) THEN [err |-> "TokenExpired"]
    ELSE [err |-> "", claims |-> token]

\* ------------------------------------------------------- credential store
\* Every model row carries gorm's DeletedAt as the flag deleted: Delete sets
\* it (soft delete) and every query and update filters on deleted = FALSE.
Live(rows) == {r \in rows : ~r.deleted}

\* gorm's First: no row is ErrRecordNotFound
First(rows) ==
    IF rows = {} THEN [found |-> FALSE]
    ELSE [found |-> TRUE, row |-> CHOOSE r \in rows : TRUE]

\* Faulty key: the client alone
SamePair_ClientOnly(a, b) == a.clientId = b.clientId

SamePair(a, b) == a.userId = b.userId /\ a.clientId = b.clientId

\* Faulty Create: reports success and stores nothing
CreateUser_Forgets(U, user) ==
    [err |-> FALSE, rows |-> U]

\* Faulty table: email_id carries no unique index
CreateUser_NoEmailIndex(U, user) ==
    IF \E u \in U : u.userId = user.userId
    THEN [err |-> TRUE, rows |-> U]
    ELSE [err |-> FALSE, rows |-> U \cup {user}]

CreateUser(U, user) ==
    IF \E u \in U : u.userId = user.userId \/ u.email = user.email
    THEN [err |-> TRUE, rows |-> U]
    ELSE [err |-> FALSE, rows |-> U \cup {user}]

GetUserByEmail(U, email) == First({u \in Live(U) : u.email = email})

GetUserByID(U, userId) == First({u \in Live(U) : u.userId = userId})

\* Faulty Save: reports success and writes nothing
UpdateUser_Forgets(U, user) ==
    [err |-> FALSE, rows |-> U]

\* Save: UPDATE by primary key, and an upsert when no live row was updated
UpdateUser(U, user) ==
    IF \E u \in U : u.userId /= user.userId /\ u.email = user.email
    THEN [err |-> TRUE, rows |-> U]
    ELSE [err |-> FALSE,
          rows |-> {u \in U : u.userId /= user.userId} \cup {user}]

\* Faulty Save: a plain INSERT that leaves the pair's row in place
CreateOrUpdateSession_InsertOnly(S, session) ==
    IF \E s \in S : ~SamePair(s, session) /\ s.refreshToken = session.refreshToken
    THEN [err |-> TRUE, rows |-> S]
    ELSE [err |-> FALSE, rows |-> S \cup {session}]

\* Faulty Save: INSERT IGNORE, which keeps the pair's row when there is one
CreateOrUpdateSession_InsertIgnore(S, session) ==
    IF \E s \in S : ~SamePair(s, session) /\ s.refreshToken = session.refreshToken
    THEN [err |-> TRUE, rows |-> S]
    ELSE IF \E s \in S : SamePair(s, session) THEN [err |-> FALSE, rows |-> S]
    ELSE [err |-> FALSE, rows |-> S \cup {session}]

\* Faulty Save: refresh_token carries no unique index
CreateOrUpdateSession_NoIndex(S, session) ==
    [err |-> FALSE, rows |-> {s \in S : ~SamePair(s, session)} \cup {session}]

\* Save on the composite primary key (user_id, client_id): the live row of
\* the pair is updated in place; when there is none, INSERT ... ON DUPLICATE
\* KEY UPDATE overwrites a soft-deleted row of the pair or inserts.  The
\* unique index on refresh_token rejects a value another row holds.
CreateOrUpdateSession(S, session) ==
    IF \E s \in S : ~SamePair(s, session) /\ s.refreshToken = session.refreshToken
    THEN [err |-> TRUE, rows |-> S]
    ELSE [err |-> FALSE,
          rows |-> {s \in S : ~SamePair(s, session)} \cup {session}]

\* Faulty query: expires_at < now
GetSessionByUserAndClient_Expired(S, userId, clientId) ==
    First({s \in Live(S) :
             s.userId = userId /\ s.clientId = clientId /\ s.expiresAt < now})

GetSessionByUserAndClient(S, userId, clientId) ==
    First({s \in Live(S) :
             s.userId = userId /\ s.clientId = clientId /\ s.expiresAt > now})

\* Faulty query: no condition on expires_at
GetSessionByRefreshToken_Unfiltered(S, refreshToken) ==
    First({s \in Live(S) : s.refreshToken = refreshToken})

GetSessionByRefreshToken(S, refreshToken) ==
    First({s \in Live(S) : s.refreshToken = refreshToken /\ s.expiresAt > now})

SoftDelete(S, doomed) ==
    {IF s \in doomed THEN [s EXCEPT !.deleted = TRUE] ELSE s : s \in S}

\* Delete on a model with DeletedAt: UPDATE users SET deleted_at = now
DeleteUser(U, userId) ==
    [err |-> FALSE, rows |-> SoftDelete(U, {u \in Live(U) : u.userId = userId})]

\* Faulty Delete: the WHERE clause matches no row
DeleteSessionByRefreshToken_Nothing(S, refreshToken) ==
    [err |-> FALSE, rows |-> S]

\* Delete reports no error when no row matches
DeleteSessionByRefreshToken(S, refreshToken) ==
    [err |-> FALSE,
     rows |-> SoftDelete(S, {s \in Live(S) : s.refreshToken = refreshToken})]

\* Faulty Delete: the WHERE clause matches no row
DeleteAllUserSessions_Nothing(S, userId) ==
    [err |-> FALSE, rows |-> S]

DeleteAllUserSessions(S, userId) ==
    [err |-> FALSE, rows |-> SoftDelete(S, {s \in Live(S) : s.userId = userId})]

\* Faulty Delete: the WHERE clause matches no row
DeleteExpiredSessions_Nothing(S) ==
    [err |-> FALSE, rows |-> S]

\* Faulty Delete: no condition on expires_at
DeleteExpiredSessions_All(S) ==
    [err |-> FALSE, rows |-> SoftDelete(S, Live(S))]

\* Delete(&models.Session{}, "expires_at < ?", time.Now())
DeleteExpiredSessions(S) ==
    [err |-> FALSE, rows |-> SoftDelete(S, {s \in Live(S) : s.expiresAt < now})]

IsEmailExists(U, email) == Cardinality({u \in Live(U) : u.email = email}) > 0

\* Faulty count: every client id is taken to exist
IsClientExists_Always(C, clientId) == TRUE

IsClientExists(C, clientId) ==
    Cardinality({c \in Live(C) : c.clientId = clientId}) > 0

\* the first value of the pool that is not in use
GenerateUUID(pool, used) ==
    pool[CHOOSE i \in 1..Len(pool) :
            pool[i] \notin used /\ \A j \in 1..(i - 1) : pool[j] \in used]

\* ------------------------------------------------------------ the handlers
\* the error value every return statement of the handlers carries
Nil == "nil"

\* The database fails the handler's k-th store call (err != nil): a write
\* that fails writes nothing.
StoreFails(k) == failAt = k

\* A handler's outcome: its response, its error value and the tables it
\* leaves behind.
Outcome(r, C, U, S, I, n) ==
    [resp |-> r, err |-> Nil, clients |-> C, users |-> U, sessions |-> S,
     issued |-> I, nextRefresh |-> n]

\* Faulty early return: return nil, status.Error(codes.Internal, ...)
Reply_Raises(r) ==
    [Outcome(r, clients, users, sessions, issued, nextRefresh)
        EXCEPT !.err = "rpc error: code = Internal"]

\* Faulty early return: a refused call revokes every session
Reply_Revokes(r) ==
    Outcome(r, clients, users, {[s EXCEPT !.deleted = TRUE] : s \in sessions},
            issued, nextRefresh)

\* an early return: the response, a nil error, nothing written
Reply(r) == Outcome(r, clients, users, sessions, issued, nextRefresh)

validateUserRegistration(req) ==
    IF req.username = "" THEN "username is required"
    ELSE IF req.email = NoEmail THEN "email is required"
    ELSE IF ~isValidEmail(req.email) THEN "invalid email format"
    ELSE IF req.password = "" THEN "password is required"
    ELSE IF Len(req.password) < MinPasswordLen
         THEN "password must be at least 8 characters long"
    ELSE IF req.clientId = "" THEN "client ID is required"
    ELSE ""

RegisterUserOutcome(req) ==
    LET fail(msg) == Reply([op |-> "RegisterUser", req |-> req, success |-> FALSE,
                            message |-> msg, userId |-> ""])
        invalid == validateUserRegistration(req)
        userId  == GenerateUUID(UserIdPool, {u.userId : u \in users})
        user    == [userId |-> userId, userName |-> req.username,
                    email |-> req.email, password |-> HashPassword(req.password),
                    clientId |-> req.clientId, deleted |-> FALSE]
        created == CreateUser(users, user)
    IN  IF invalid /= "" THEN fail(invalid)
        ELSE IF StoreFails(1) THEN fail("Internal server error")
        ELSE IF ~IsClientExists(clients, req.clientId) THEN fail("Invalid client ID")
        ELSE IF StoreFails(2) THEN fail("Internal server error")
        ELSE IF IsEmailExists(users, req.email) THEN fail("Email already registered")
        ELSE IF StoreFails(3) \/ created.err THEN fail("Failed to create user")
        ELSE Outcome([op |-> "RegisterUser", req |-> req, success |-> TRUE,
                      message |-> "User registered successfully", userId |-> userId],
                     clients, created.rows, sessions, issued, nextRefresh)

NoProfile == [userId |-> "", username |-> "", email |-> NoEmail, clientId |-> ""]

\* Faulty LoginUser: an unknown email is answered with a message of its own
loginRejection_Telling(req) ==
    LET found == GetUserByEmail(users, req.email)
    IN  IF req.email = NoEmail \/ req.password = "" \/ req.clientId = ""
        THEN "Email, password, and client ID are required"
        ELSE IF StoreFails(1) THEN "Internal server error"
        ELSE IF ~IsClientExists(clients, req.clientId) THEN "Invalid client ID"
        ELSE IF StoreFails(2) \/ ~found.found THEN "User not found"
        ELSE IF found.row.clientId /= req.clientId THEN "Invalid credentials"
        ELSE IF ~CheckPasswordHash(req.password, found.row.password)
             THEN "Invalid credentials"
        ELSE ""

\* LoginUser's early returns: the message of the first check that fails, or ""
loginRejection(req) ==
    LET found == GetUserByEmail(users, req.email)
    IN  IF req.email = NoEmail \/ req.password = "" \/ req.clientId = ""
        THEN "Email, password, and client ID are required"
        ELSE IF StoreFails(1) THEN "Internal server error"
        ELSE IF ~IsClientExists(clients, req.clientId) THEN "Invalid client ID"
        ELSE IF StoreFails(2) \/ ~found.found THEN "Invalid credentials"
        ELSE IF found.row.clientId /= req.clientId THEN "Invalid credentials"
        ELSE IF ~CheckPasswordHash(req.password, found.row.password)
             THEN "Invalid credentials"
        ELSE ""

LoginUserOutcome(req) ==
    LET fail(msg) == Reply([op |-> "LoginUser", req |-> req, success |-> FALSE,
                            message |-> msg, accessToken |-> NoAccessToken,
                            refreshToken |-> NoRefresh, expiresAt |-> 0,
                            user |-> NoProfile])
        found == GetUserByEmail(users, req.email)
        user  == found.row
        refreshToken == nextRefresh
        accessToken  == GenerateJWTToken(user.userId, user.userName, user.clientId,
                                         refreshToken)
        session == [userId |-> user.userId, clientId |-> user.clientId,
                    refreshToken |-> refreshToken, userAgent |-> req.userAgent,
                    expiresAt |-> now + SessionTTL, deleted |-> FALSE]
        saved == CreateOrUpdateSession(sessions, session)
    IN  IF loginRejection(req) /= "" THEN fail(loginRejection(req))
        ELSE IF StoreFails(3) \/ saved.err
             THEN [fail("Internal server error") EXCEPT !.nextRefresh = nextRefresh + 1]
        ELSE Outcome([op |-> "LoginUser", req |-> req, success |-> TRUE,
                      message |-> "Login successful", accessToken |-> accessToken,
                      refreshToken |-> refreshToken, expiresAt |-> accessToken.exp,
                      user |-> [userId |-> user.userId, username |-> user.userName,
                                email |-> user.email, clientId |-> user.clientId]],
                     clients, users, saved.rows, issued \cup {accessToken},
                     nextRefresh + 1)

\* Faulty ValidateToken: any live session of the pair will do
sessionBound_AnySession(session, claims) ==
    session.found

\* err != nil || session.RefreshToken != claims.RefreshToken, negated
sessionBound(session, claims) ==
    session.found /\ session.row.refreshToken = claims.refreshToken

\* Faulty check: the claims are not compared with the user record
claimsMatch_Unchecked(user, claims) == TRUE

\* user.UserName != claims.Username, user.ClientId != claims.ClientID, negated
claimsMatch(user, claims) ==
    user.userName = claims.username /\ user.clientId = claims.clientId

\* Faulty response: the expiry is left at its zero value
reportedExpiry_Unset(claims) == 0

\* ExpiresAt: timestamppb.New(claims.ExpiresAt.Time)
reportedExpiry(claims) == claims.exp

\* Faulty ValidateToken: a token that validates extends its session's life
ValidateTokenOutcome_Sliding(req) ==
    LET fail(msg) == Reply([op |-> "ValidateToken", req |-> req, valid |-> FALSE,
                            message |-> msg, userId |-> "", expiresAt |-> 0])
        decoded == ValidateJWTToken(req.accessToken)
        claims  == decoded.claims
        found   == GetUserByID(users, claims.userId)
        user    == found.row
        session == GetSessionByUserAndClient(sessions, user.userId, user.clientId)
        kept    == [session.row EXCEPT !.expiresAt = now + SessionTTL]
    IN  IF req.accessToken = NoAccessToken THEN fail("Access token is required")
        ELSE IF decoded.err /= "" THEN fail("Invalid token")
        ELSE IF ~found.found THEN fail("User not found")
        ELSE IF ~claimsMatch(user, claims) THEN fail("Invalid token claims")
        ELSE IF ~sessionBound(session, claims) THEN fail("Invalid session")
        ELSE Outcome([op |-> "ValidateToken", req |-> req, valid |-> TRUE,
                      message |-> "Token is valid", userId |-> user.userId,
                      expiresAt |-> reportedExpiry(claims)],
                     clients, users, (sessions \ {session.row}) \cup {kept},
                     issued, nextRefresh)

ValidateTokenOutcome(req) ==
    LET fail(msg) == Reply([op |-> "ValidateToken", req |-> req, valid |-> FALSE,
                            message |-> msg, userId |-> "", expiresAt |-> 0])
        decoded == ValidateJWTToken(req.accessToken)
        claims  == decoded.claims
        found   == GetUserByID(users, claims.userId)
        user    == found.row
        session == GetSessionByUserAndClient(sessions, user.userId, user.clientId)
    IN  IF req.accessToken = NoAccessToken THEN fail("Access token is required")
        ELSE IF decoded.err /= "" THEN fail("Invalid token")
        ELSE IF StoreFails(1) \/ ~found.found THEN fail("User not found")
        ELSE IF ~claimsMatch(user, claims) THEN fail("Invalid token claims")
        ELSE IF StoreFails(2) \/ ~sessionBound(session, claims)
             THEN fail("Invalid session")
        ELSE Reply([op |-> "ValidateToken", req |-> req, valid |-> TRUE,
                    message |-> "Token is valid", userId |-> user.userId,
                    expiresAt |-> reportedExpiry(claims)])

\* Faulty RefreshToken: the session's life is extended, its refresh value kept
rotated_KeepsValue(session, newRefreshToken) ==
    [session EXCEPT !.expiresAt = now + SessionTTL]

\* Faulty RefreshToken: the refresh value is replaced, the expiry kept
rotated_KeepsExpiry(session, newRefreshToken) ==
    [session EXCEPT !.refreshToken = newRefreshToken]

\* session.RefreshToken = newRefreshToken; session.ExpiresAt = now + 7 days
rotated(session, newRefreshToken) ==
    [session EXCEPT !.refreshToken = newRefreshToken,
                    !.expiresAt = now + SessionTTL]

\* Faulty RefreshToken: the client of the request is not compared
belongsToClient_Unchecked(user, clientId) == TRUE

\* Check if user belongs to the client
belongsToClient(user, clientId) == user.clientId = clientId

RefreshTokenOutcome(req) ==
    LET fail(msg) == Reply([op |-> "RefreshToken", req |-> req, success |-> FALSE,
                            message |-> msg, accessToken |-> NoAccessToken,
                            refreshToken |-> NoRefresh, expiresAt |-> 0])
        got     == GetSessionByRefreshToken(sessions, req.refreshToken)
        session == got.row
        found   == GetUserByID(users, session.userId)
        user    == found.row
        newRefreshToken == nextRefresh
        accessToken == GenerateJWTToken(user.userId, user.userName, user.clientId,
                                        newRefreshToken)
        updated == rotated(session, newRefreshToken)
        saved   == CreateOrUpdateSession(sessions, updated)
    IN  IF req.refreshToken = NoRefresh \/ req.clientId = ""
        THEN fail("Refresh token and client ID are required")
        ELSE IF StoreFails(1) \/ ~got.found THEN fail("Invalid refresh token")
        ELSE IF StoreFails(2) \/ ~found.found THEN fail("User not found")
        ELSE IF ~belongsToClient(user, req.clientId) THEN fail("Invalid client ID")
        ELSE IF StoreFails(3) \/ saved.err
             THEN [fail("Internal server error") EXCEPT !.nextRefresh = nextRefresh + 1]
        ELSE Outcome([op |-> "RefreshToken", req |-> req, success |-> TRUE,
                      message |-> "Token refreshed successfully",
                      accessToken |-> accessToken, refreshToken |-> newRefreshToken,
                      expiresAt |-> accessToken.exp],
                     clients, users, saved.rows, issued \cup {accessToken},
                     nextRefresh + 1)

LogoutUserOutcome(req) ==
    LET fail(msg) == Reply([op |-> "LogoutUser", req |-> req, success |-> FALSE,
                            message |-> msg])
        deleted == DeleteSessionByRefreshToken(sessions, req.refreshToken)
    IN  IF req.refreshToken = NoRefresh THEN fail("Refresh token is required")
        ELSE IF StoreFails(1) \/ deleted.err THEN fail("Invalid refresh token")
        ELSE Outcome([op |-> "LogoutUser", req |-> req, success |-> TRUE,
                      message |-> "Logged out successfully"],
                     clients, users, deleted.rows, issued, nextRefresh)

\* Faulty check: the current password is not verified
wrongCurrentPassword_Never(req, user) == FALSE

\* !utils.CheckPasswordHash(req.CurrentPassword, user.Password)
wrongCurrentPassword(req, user) ==
    ~CheckPasswordHash(req.currentPassword, user.password)

\* Faulty ChangePassword: the token must pass ValidateToken's session check
ChangePasswordOutcome_NeedsSession(req) ==
    LET fail(msg) == Reply([op |-> "ChangePassword", req |-> req, success |-> FALSE,
                            message |-> msg])
        decoded == ValidateJWTToken(req.accessToken)
        found   == GetUserByID(users, decoded.claims.userId)
        session == GetSessionByUserAndClient(sessions, found.row.userId,
                                             found.row.clientId)
        user    == [found.row EXCEPT !.password = HashPassword(req.newPassword)]
        updated == UpdateUser(users, user)
        deleted == DeleteAllUserSessions(sessions, user.userId)
    IN  IF req.accessToken = NoAccessToken \/ req.currentPassword = ""
           \/ req.newPassword = ""
        THEN fail("Access token, current password, and new password are required")
        ELSE IF decoded.err /= "" THEN fail("Invalid access token")
        ELSE IF ~found.found THEN fail("User not found")
        ELSE IF ~sessionBound(session, decoded.claims) THEN fail("Invalid session")
        ELSE IF wrongCurrentPassword(req, found.row)
             THEN fail("Current password is incorrect")
        ELSE Outcome([op |-> "ChangePassword", req |-> req, success |-> TRUE,
                      message |-> "Password changed successfully. Please log in again."],
                     clients, updated.rows, deleted.rows, issued, nextRefresh)

\* Faulty ChangePassword: the update is undone when the delete fails
ChangePasswordOutcome_RollsBack(req) ==
    LET fail(msg) == Reply([op |-> "ChangePassword", req |-> req, success |-> FALSE,
                            message |-> msg])
        decoded == ValidateJWTToken(req.accessToken)
        found   == GetUserByID(users, decoded.claims.userId)
        user    == [found.row EXCEPT !.password = HashPassword(req.newPassword)]
        updated == UpdateUser(users, user)
        deleted == DeleteAllUserSessions(sessions, user.userId)
    IN  IF req.accessToken = NoAccessToken \/ req.currentPassword = ""
           \/ req.newPassword = ""
        THEN fail("Access token, current password, and new password are required")
        ELSE IF decoded.err /= "" THEN fail("Invalid access token")
        ELSE IF StoreFails(1) \/ ~found.found THEN fail("User not found")
        ELSE IF wrongCurrentPassword(req, found.row)
             THEN fail("Current password is incorrect")
        ELSE IF StoreFails(2) \/ updated.err THEN fail("Internal server error")
        ELSE IF StoreFails(3) \/ deleted.err
             THEN fail("Password changed but failed to invalidate sessions")
        ELSE Outcome([op |-> "ChangePassword", req |-> req, success |-> TRUE,
                      message |-> "Password changed successfully. Please log in again."],
                     clients, updated.rows, deleted.rows, issued, nextRefresh)

ChangePasswordOutcome(req) ==
    LET fail(msg) == Reply([op |-> "ChangePassword", req |-> req, success |-> FALSE,
                            message |-> msg])
        decoded == ValidateJWTToken(req.accessToken)
        found   == GetUserByID(users, decoded.claims.userId)
        user    == [found.row EXCEPT !.password = HashPassword(req.newPassword)]
        updated == UpdateUser(users, user)
        deleted == DeleteAllUserSessions(sessions, user.userId)
    IN  IF req.accessToken = NoAccessToken \/ req.currentPassword = ""
           \/ req.newPassword = ""
        THEN fail("Access token, current password, and new password are required")
        ELSE IF decoded.err /= "" THEN fail("Invalid access token")
        ELSE IF StoreFails(1) \/ ~found.found THEN fail("User not found")
        ELSE IF wrongCurrentPassword(req, found.row)
             THEN fail("Current password is incorrect")
        ELSE IF StoreFails(2) \/ updated.err THEN fail("Internal server error")
        ELSE IF StoreFails(3) \/ deleted.err
             THEN [fail("Password changed but failed to invalidate sessions")
                      EXCEPT !.users = updated.rows]
        ELSE Outcome([op |-> "ChangePassword", req |-> req, success |-> TRUE,
                      message |-> "Password changed successfully. Please log in again."],
                     clients, updated.rows, deleted.rows, issued, nextRefresh)

\* ------------------------------------------------------------- the actions
\* A call takes effect as its handler's outcome says; its response is kept
\* when it changed a table or issued a token.
Apply(o) ==
    /\ resp' = IF <<o.clients, o.users, o.sessions, o.issued>>
                    /= <<clients, users, sessions, issued>>
               THEN o.resp ELSE resp
    /\ clients' = o.clients
    /\ users' = o.users
    /\ sessions' = o.sessions
    /\ issued' = o.issued
    /\ nextRefresh' = o.nextRefresh
    /\ failAt' = 0
    /\ UNCHANGED <<now, conc>>

\* the access tokens a caller can present: those issued, altered ones, none
AccessTokenInputs == issued \cup {Tamper(t) : t \in issued} \cup {NoAccessToken}

\* the refresh values a caller can present: those generated so far, one the
\* service never generated, or none
RefreshInputs == (1..(nextRefresh - 1)) \cup {Forged, NoRefresh}

RegisterRequests ==
    [username : UserNames, email : Emails, password : {OldPassword},
     clientId : ClientIdInputs]
    \cup [username : UserNames, email : {BadEmail}, password : {OldPassword},
          clientId : {"c1"}]
    \cup [username : UserNames, email : {E1}, password : {"short"},
          clientId : {"c1"}]

\* requests that miss a field or carry a malformed one, one of each kind
MalformedRegisterRequests ==
    {[username |-> "", email |-> E1, password |-> OldPassword, clientId |-> "c1"],
     [username |-> "alice", email |-> NoEmail, password |-> OldPassword,
      clientId |-> "c1"],
     [username |-> "alice", email |-> BadEmail, password |-> OldPassword,
      clientId |-> "c1"],
     [username |-> "alice", email |-> E1, password |-> "", clientId |-> "c1"],
     [username |-> "alice", email |-> E1, password |-> "short", clientId |-> "c1"],
     [username |-> "alice", email |-> E1, password |-> OldPassword, clientId |-> ""]}
    \cup [username : UserNames, email : {PaddedEmail}, password : {OldPassword},
          clientId : SeedClients]

RegisterInputs ==
    RegisterRequests \cup MalformedRegisterRequests
    \cup [username : {"bob"}, email : Emails, password : {NewPassword},
          clientId : SeedClients]

LoginRequests ==
    [email : Emails, password : Passwords, clientId : ClientIdInputs,
     userAgent : UserAgents]

ValidateRequests == [accessToken : AccessTokenInputs]

RefreshRequests == [refreshToken : RefreshInputs, clientId : ClientIdInputs]

LogoutRequests == [refreshToken : RefreshInputs]

ChangePasswordRequests ==
    [accessToken : AccessTokenInputs, currentPassword : Passwords,
     newPassword : {NewPassword}]

RegisterUser == \E req \in RegisterRequests : Apply(RegisterUserOutcome(req))

LoginUser ==
    \E req \in LoginRequests :
        /\ LoginUserOutcome(req).nextRefresh <= MaxRefresh + 1
        /\ Apply(LoginUserOutcome(req))

ValidateToken == \E req \in ValidateRequests : Apply(ValidateTokenOutcome(req))

RefreshToken ==
    \E req \in RefreshRequests :
        /\ RefreshTokenOutcome(req).nextRefresh <= MaxRefresh + 1
        /\ Apply(RefreshTokenOutcome(req))

LogoutUser == \E req \in LogoutRequests : Apply(LogoutUserOutcome(req))

ChangePassword ==
    \E req \in ChangePasswordRequests : Apply(ChangePasswordOutcome(req))

\* one tick of the cleanup job; an error of the store is logged
cleanupExpiredSessions ==
    /\ sessions' = IF StoreFails(1) THEN sessions
                   ELSE DeleteExpiredSessions(sessions).rows
    /\ failAt' = 0
    /\ UNCHANGED <<clients, users, now, nextRefresh, issued, resp, conc>>

\* time passes
Advance ==
    \E i \in 1..MaxInstant :
        /\ i <= Len(Instants)
        /\ Instants[i] > now
        /\ now' = Instants[i]
        /\ UNCHANGED <<clients, users, sessions, nextRefresh, issued, resp, failAt,
                       conc>>

\* the goroutines are idle and have served nothing
Idle == [op |-> "none"]

\* NewCleanupService: the stop channel is open, the WaitGroup is at zero, no
\* goroutine runs (g), no tick waits in ticker.C, Stop has not been called,
\* and cleanupExpiredSessions has logged no outcome
NewCleanupService ==
    [stop |-> "open", wg |-> 0, g |-> "none", tick |-> FALSE, caller |-> "idle",
     log |-> "none"]

ConcInit ==
    /\ pc = [p \in Procs |-> "idle"]
    /\ loc = [p \in Procs |-> Idle]
    /\ calls = 0
    /\ done = {}
    /\ sweeper = NewCleanupService

Init ==
    /\ ConcInit
    /\ clients = {[clientId |-> c, clientName |-> "app", deleted |-> FALSE] :
                     c \in SeedClients}
    /\ users = {}
    /\ sessions = {}
    /\ now = 0
    /\ nextRefresh = 1
    /\ issued = {}
    /\ resp = [op |-> "none"]
    /\ failAt = 0

Next ==
    \/ RegisterUser
    \/ LoginUser
    \/ ValidateToken
    \/ RefreshToken
    \/ LogoutUser
    \/ ChangePassword
    \/ cleanupExpiredSessions
    \/ Advance

Spec == Init /\ [][Next]_vars

\* RegisterUser alone, on every kind of request
RegisterUserInputs == \E req \in RegisterInputs : Apply(RegisterUserOutcome(req))

SpecRegister == Init /\ [][RegisterUserInputs]_vars

\* The store may fail the next handler at any of its calls.
StoreCalls == 1..3

StoreFault ==
    /\ failAt = 0
    /\ failAt' \in StoreCalls
    /\ UNCHANGED <<clients, users, sessions, now, nextRefresh, issued, resp, conc>>

NextFaults ==
    \/ RegisterUser
    \/ LoginUser
    \/ ValidateToken
    \/ RefreshToken
    \/ LogoutUser
    \/ ChangePassword
    \/ StoreFault

SpecFaults == Init /\ [][NextFaults]_vars

\* ------------------------------------ the handlers, one statement at a time
\* gRPC serves every call on a goroutine of its own.  A handler's repository
\* calls are separate SQL statements: each is atomic, and other goroutines'
\* statements run between them.  Save is two statements: an UPDATE of the
\* live row with the primary key and, when that updated no row, an INSERT
\* ... ON DUPLICATE KEY UPDATE of every column.
saveUpdate(S, session) ==
    LET hit == {s \in Live(S) : SamePair(s, session)}
    IN  [affected |-> hit /= {},
         rows |-> IF hit /= {} THEN (S \ hit) \cup {session} ELSE S]

\* Faulty upsert: ON DUPLICATE KEY UPDATE of the refresh value alone
saveUpsert_RefreshOnly(S, session) ==
    IF \E s \in S : SamePair(s, session)
    THEN {IF SamePair(s, session)
          THEN [s EXCEPT !.refreshToken = session.refreshToken, !.deleted = FALSE]
          ELSE s : s \in S}
    ELSE S \cup {session}

saveUpsert(S, session) == {s \in S : ~SamePair(s, session)} \cup {session}

\* the user the tests seed
SeedUser ==
    [userId |-> "u1", userName |-> "alice", email |-> E1,
     password |-> HashPassword(OldPassword), clientId |-> "c1", deleted |-> FALSE]

AgentOf == [p1 |-> "web", p2 |-> "phone"]

ConcFrame == UNCHANGED <<clients, now, resp, failAt, sweeper>>

Locals(p, session, accessToken) ==
    [op |-> loc[p].op, req |-> loc[p].req, id |-> loc[p].id,
     session |-> session, accessToken |-> accessToken]

Begin(p, op, req, first) ==
    /\ pc[p] = "idle"
    /\ calls < MaxCalls
    /\ calls' = calls + 1
    /\ loc' = [loc EXCEPT ![p] = [op |-> op, req |-> req, id |-> calls + 1]]
    /\ pc' = [pc EXCEPT ![p] = first]
    /\ UNCHANGED <<users, sessions, nextRefresh, issued, done>>
    /\ ConcFrame

\* the handler returns r
Answer(p, r) ==
    /\ done' = done \cup {[id |-> loc[p].id, seen |-> calls, resp |-> r]}
    /\ pc' = [pc EXCEPT ![p] = "idle"]
    /\ loc' = [loc EXCEPT ![p] = Idle]
    /\ UNCHANGED calls

Refused(p, message) ==
    [op |-> loc[p].op, req |-> loc[p].req, success |-> FALSE, message |-> message,
     accessToken |-> NoAccessToken, refreshToken |-> NoRefresh]

BeginLogin(p) ==
    \E req \in [email : {E1}, password : Passwords, clientId : {"c1"},
                userAgent : {AgentOf[p]}] :
        Begin(p, "LoginUser", req, "login_read")

\* LoginUser up to the session it is about to save
LoginRead(p) ==
    LET req  == loc[p].req
        user == GetUserByEmail(users, req.email).row
        accessToken == GenerateJWTToken(user.userId, user.userName, user.clientId,
                                        nextRefresh)
        session == [userId |-> user.userId, clientId |-> user.clientId,
                    refreshToken |-> nextRefresh, userAgent |-> req.userAgent,
                    expiresAt |-> now + SessionTTL, deleted |-> FALSE]
    IN  /\ pc[p] = "login_read"
        /\ IF loginRejection(req) /= ""
           THEN /\ Answer(p, Refused(p, loginRejection(req)))
                /\ UNCHANGED nextRefresh
           ELSE /\ nextRefresh <= MaxConcRefresh
                /\ nextRefresh' = nextRefresh + 1
                /\ loc' = [loc EXCEPT ![p] = Locals(p, session, accessToken)]
                /\ pc' = [pc EXCEPT ![p] = "save_update"]
                /\ UNCHANGED <<calls, done>>
        /\ UNCHANGED <<users, sessions, issued>>
        /\ ConcFrame

BeginRefresh(p) ==
    \E req \in [refreshToken : 1..(nextRefresh - 1), clientId : {"c1"}] :
        Begin(p, "RefreshToken", req, "refresh_session")

RefreshSession(p) ==
    LET got == GetSessionByRefreshToken(sessions, loc[p].req.refreshToken)
    IN  /\ pc[p] = "refresh_session"
        /\ IF ~got.found
           THEN Answer(p, Refused(p, "Invalid refresh token"))
           ELSE /\ loc' = [loc EXCEPT ![p] = Locals(p, got.row, NoAccessToken)]
                /\ pc' = [pc EXCEPT ![p] = "refresh_user"]
                /\ UNCHANGED <<calls, done>>
        /\ UNCHANGED <<users, sessions, nextRefresh, issued>>
        /\ ConcFrame

RefreshUser(p) ==
    LET found == GetUserByID(users, loc[p].session.userId)
        user  == found.row
        accessToken == GenerateJWTToken(user.userId, user.userName, user.clientId,
                                        nextRefresh)
    IN  /\ pc[p] = "refresh_user"
        /\ IF ~found.found
           THEN Answer(p, Refused(p, "User not found")) /\ UNCHANGED nextRefresh
           ELSE IF ~belongsToClient(user, loc[p].req.clientId)
           THEN Answer(p, Refused(p, "Invalid client ID")) /\ UNCHANGED nextRefresh
           ELSE /\ nextRefresh <= MaxConcRefresh
                /\ nextRefresh' = nextRefresh + 1
                /\ loc' = [loc EXCEPT ![p] =
                              Locals(p, rotated(loc[p].session, nextRefresh),
                                     accessToken)]
                /\ pc' = [pc EXCEPT ![p] = "save_update"]
                /\ UNCHANGED <<calls, done>>
        /\ UNCHANGED <<users, sessions, issued>>
        /\ ConcFrame

\* CreateOrUpdateSession, first statement
SaveUpdate(p) ==
    /\ pc[p] = "save_update"
    /\ sessions' = saveUpdate(sessions, loc[p].session).rows
    /\ pc' = [pc EXCEPT ![p] = IF saveUpdate(sessions, loc[p].session).affected
                              THEN "return" ELSE "save_upsert"]
    /\ UNCHANGED <<users, nextRefresh, issued, loc, calls, done>>
    /\ ConcFrame

\* CreateOrUpdateSession, second statement
SaveUpsert(p) ==
    /\ pc[p] = "save_upsert"
    /\ sessions' = saveUpsert(sessions, loc[p].session)
    /\ pc' = [pc EXCEPT ![p] = "return"]
    /\ UNCHANGED <<users, nextRefresh, issued, loc, calls, done>>
    /\ ConcFrame

\* LoginUser and RefreshToken return their tokens
Return(p) ==
    /\ pc[p] = "return"
    /\ Answer(p, [op |-> loc[p].op, req |-> loc[p].req, success |-> TRUE,
                  message |-> IF loc[p].op = "LoginUser" THEN "Login successful"
                              ELSE "Token refreshed successfully",
                  accessToken |-> loc[p].accessToken,
                  refreshToken |-> loc[p].session.refreshToken])
    /\ issued' = issued \cup {loc[p].accessToken}
    /\ UNCHANGED <<users, sessions, nextRefresh>>
    /\ ConcFrame

BeginChangePassword(p) ==
    \E req \in [accessToken : issued, currentPassword : {OldPassword},
                newPassword : {NewPassword}] :
        Begin(p, "ChangePassword", req, "change_user")

ChangeUser(p) ==
    LET req     == loc[p].req
        decoded == ValidateJWTToken(req.accessToken)
        found   == GetUserByID(users, decoded.claims.userId)
    IN  /\ pc[p] = "change_user"
        /\ IF decoded.err /= ""
           THEN Answer(p, Refused(p, "Invalid access token"))
           ELSE IF ~found.found
           THEN Answer(p, Refused(p, "User not found"))
           ELSE IF wrongCurrentPassword(req, found.row)
           THEN Answer(p, Refused(p, "Current password is incorrect"))
           ELSE /\ loc' = [loc EXCEPT ![p] =
                              [op |-> loc[p].op, req |-> req, id |-> loc[p].id,
                               user |-> [found.row EXCEPT !.password =
                                            HashPassword(req.newPassword)]]]
                /\ pc' = [pc EXCEPT ![p] = "change_update"]
                /\ UNCHANGED <<calls, done>>
        /\ UNCHANGED <<users, sessions, nextRefresh, issued>>
        /\ ConcFrame

ChangeUpdate(p) ==
    /\ pc[p] = "change_update"
    /\ users' = UpdateUser(users, loc[p].user).rows
    /\ pc' = [pc EXCEPT ![p] = "change_delete"]
    /\ UNCHANGED <<sessions, nextRefresh, issued, loc, calls, done>>
    /\ ConcFrame

ChangeDelete(p) ==
    /\ pc[p] = "change_delete"
    /\ sessions' = DeleteAllUserSessions(sessions, loc[p].user.userId).rows
    /\ pc' = [pc EXCEPT ![p] = "change_return"]
    /\ UNCHANGED <<users, nextRefresh, issued, loc, calls, done>>
    /\ ConcFrame

ChangeReturn(p) ==
    /\ pc[p] = "change_return"
    /\ Answer(p, [op |-> loc[p].op, req |-> loc[p].req, success |-> TRUE,
                  message |-> "Password changed successfully. Please log in again.",
                  accessToken |-> NoAccessToken, refreshToken |-> NoRefresh])
    /\ UNCHANGED <<users, sessions, nextRefresh, issued>>
    /\ ConcFrame

InitConc ==
    /\ ConcInit
    /\ clients = {[clientId |-> c, clientName |-> "app", deleted |-> FALSE] :
                     c \in SeedClients}
    /\ users = {SeedUser}
    /\ sessions = {}
    /\ now = 0
    /\ nextRefresh = 1
    /\ issued = {}
    /\ resp = [op |-> "none"]
    /\ failAt = 0

NextConc ==
    \E p \in Procs :
        \/ BeginLogin(p)
        \/ LoginRead(p)
        \/ BeginRefresh(p)
        \/ RefreshSession(p)
        \/ RefreshUser(p)
        \/ SaveUpdate(p)
        \/ SaveUpsert(p)
        \/ Return(p)
        \/ BeginChangePassword(p)
        \/ ChangeUser(p)
        \/ ChangeUpdate(p)
        \/ ChangeDelete(p)
        \/ ChangeReturn(p)

SpecConc == InitConc /\ [][NextConc]_vars

\* ---- Two callers, each acting for its own (user, client) pair ----

OtherUser ==
    [userId |-> "u2", userName |-> "bob", email |-> E2,
     password |-> HashPassword(OldPassword), clientId |-> "c1", deleted |-> FALSE]

Own == [p1 |-> SeedUser, p2 |-> OtherUser]

\* the refresh values handed out for the user of p
OwnRefresh(p) == {t.refreshToken : t \in {i \in issued : i.userId = Own[p].userId}}

BeginLoginAs(p) ==
    \E req \in [email : {Own[p].email}, password : Passwords,
                clientId : {Own[p].clientId}, userAgent : {AgentOf[p]}] :
        Begin(p, "LoginUser", req, "login_read")

BeginRefreshAs(p) ==
    \E req \in [refreshToken : OwnRefresh(p), clientId : {Own[p].clientId}] :
        Begin(p, "RefreshToken", req, "refresh_session")

BeginChangePasswordAs(p) ==
    \E req \in [accessToken : {i \in issued : i.userId = Own[p].userId},
                currentPassword : {OldPassword}, newPassword : {NewPassword}] :
        Begin(p, "ChangePassword", req, "change_user")

BeginLogoutAs(p) ==
    \E req \in [refreshToken : OwnRefresh(p)] :
        Begin(p, "LogoutUser", req, "logout_delete")

\* LogoutUser: one DELETE, then the answer
LogoutDelete(p) ==
    LET deleted == DeleteSessionByRefreshToken(sessions, loc[p].req.refreshToken)
    IN  /\ pc[p] = "logout_delete"
        /\ sessions' = deleted.rows
        /\ IF deleted.err
           THEN Answer(p, Refused(p, "Invalid refresh token"))
           ELSE Answer(p, [op |-> loc[p].op, req |-> loc[p].req, success |-> TRUE,
                           message |-> "Logged out successfully",
                           accessToken |-> NoAccessToken,
                           refreshToken |-> NoRefresh])
        /\ UNCHANGED <<users, nextRefresh, issued>>
        /\ ConcFrame

InitPairs ==
    /\ ConcInit
    /\ clients = {[clientId |-> c, clientName |-> "app", deleted |-> FALSE] :
                     c \in SeedClients}
    /\ users = {SeedUser, OtherUser}
    /\ sessions = {}
    /\ now = 0
    /\ nextRefresh = 1
    /\ issued = {}
    /\ resp = [op |-> "none"]
    /\ failAt = 0

NextPairs ==
    \E p \in Procs :
        \/ BeginLoginAs(p)
        \/ LoginRead(p)
        \/ BeginRefreshAs(p)
        \/ RefreshSession(p)
        \/ RefreshUser(p)
        \/ SaveUpdate(p)
        \/ SaveUpsert(p)
        \/ Return(p)
        \/ BeginChangePasswordAs(p)
        \/ ChangeUser(p)
        \/ ChangeUpdate(p)
        \/ ChangeDelete(p)
        \/ ChangeReturn(p)
        \/ BeginLogoutAs(p)
        \/ LogoutDelete(p)

SpecPairs == InitPairs /\ [][NextPairs]_vars

\* ---------------------------------------------------------------------------
\* LogoutUser beside LoginUser and RefreshToken of the same user, statement by
\* statement

BeginLogout(p) ==
    \E req \in [refreshToken : 1..(nextRefresh - 1)] :
        Begin(p, "LogoutUser", req, "logout_delete")

NextLogout ==
    \E p \in Procs :
        \/ BeginLogin(p)
        \/ LoginRead(p)
        \/ BeginRefresh(p)
        \/ RefreshSession(p)
        \/ RefreshUser(p)
        \/ SaveUpdate(p)
        \/ SaveUpsert(p)
        \/ Return(p)
        \/ BeginLogout(p)
        \/ LogoutDelete(p)

SpecLogout == InitConc /\ [][NextLogout]_vars

\* ---------------------------------------------------------------------------
\* RegisterUser in two goroutines, statement by statement

RegisterNames == {"alice", "bob"}

BeginRegister(p) ==
    \E req \in [username : RegisterNames, email : {E1, E2},
                password : {OldPassword}, clientId : SeedClients] :
        Begin(p, "RegisterUser", req, "register_probe")

\* RegisterUser up to the 'email already registered' probe
RegisterProbe(p) ==
    LET req == loc[p].req
    IN  /\ pc[p] = "register_probe"
        /\ IF validateUserRegistration(req) /= ""
           THEN Answer(p, Refused(p, validateUserRegistration(req)))
           ELSE IF ~IsClientExists(clients, req.clientId)
           THEN Answer(p, Refused(p, "Invalid client ID"))
           ELSE IF IsEmailExists(users, req.email)
           THEN Answer(p, Refused(p, "Email already registered"))
           ELSE /\ pc' = [pc EXCEPT ![p] = "register_create"]
                /\ UNCHANGED <<loc, calls, done>>
        /\ UNCHANGED <<users, sessions, nextRefresh, issued>>
        /\ ConcFrame

\* a fresh user id, then the INSERT
RegisterCreate(p) ==
    LET req     == loc[p].req
        userId  == GenerateUUID(UserIdPool, {u.userId : u \in users})
        user    == [userId |-> userId, userName |-> req.username,
                    email |-> req.email, password |-> HashPassword(req.password),
                    clientId |-> req.clientId, deleted |-> FALSE]
        created == CreateUser(users, user)
    IN  /\ pc[p] = "register_create"
        /\ users' = created.rows
        /\ IF created.err
           THEN Answer(p, Refused(p, "Failed to create user"))
           ELSE Answer(p, [op |-> loc[p].op, req |-> req, success |-> TRUE,
                           message |-> "User registered successfully",
                           accessToken |-> NoAccessToken,
                           refreshToken |-> NoRefresh])
        /\ UNCHANGED <<sessions, nextRefresh, issued>>
        /\ ConcFrame

InitRegisters ==
    /\ ConcInit
    /\ clients = {[clientId |-> c, clientName |-> "app", deleted |-> FALSE] :
                     c \in SeedClients}
    /\ users = {}
    /\ sessions = {}
    /\ now = 0
    /\ nextRefresh = 1
    /\ issued = {}
    /\ resp = [op |-> "none"]
    /\ failAt = 0

NextRegisters ==
    \E p \in Procs :
        \/ BeginRegister(p)
        \/ RegisterProbe(p)
        \/ RegisterCreate(p)

SpecRegisters == InitRegisters /\ [][NextRegisters]_vars

\* ---- The cleanup service: Start, its goroutine, Stop ----

SweeperFrame ==
    UNCHANGED <<clients, users, now, nextRefresh, issued, resp, failAt,
                pc, loc, calls, done>>

\* Start: wg.Add(1) and the goroutine, which makes its ticker and selects.
\* It is called once, after construction and before Stop.
Start ==
    /\ sweeper.g = "none"
    /\ sweeper.caller = "idle"
    /\ sweeper' = [sweeper EXCEPT !.wg = @ + 1, !.g = "select"]
    /\ UNCHANGED sessions
    /\ SweeperFrame

\* the ticker puts a tick in ticker.C, which holds one; it is stopped when
\* the goroutine returns
Tick ==
    /\ sweeper.g \in {"select", "sweep"}
    /\ ~sweeper.tick
    /\ sweeper' = [sweeper EXCEPT !.tick = TRUE]
    /\ UNCHANGED sessions
    /\ SweeperFrame

\* select takes case <-ticker.C and enters cleanupExpiredSessions
SweepBegin ==
    /\ sweeper.g = "select"
    /\ sweeper.tick
    /\ sweeper' = [sweeper EXCEPT !.tick = FALSE, !.g = "sweep"]
    /\ UNCHANGED sessions
    /\ SweeperFrame

\* DeleteExpiredSessions succeeds, or fails (its context timed out) and is
\* logged; cancel(), and the loop is back at select
\* Faulty sweep: an error ends the goroutine
SweepEnd_StopsOnError ==
    /\ sweeper.g = "sweep"
    /\ \E failed \in BOOLEAN :
          /\ sessions' = IF failed THEN sessions
                         ELSE DeleteExpiredSessions(sessions).rows
          /\ sweeper' = IF failed
                        THEN [sweeper EXCEPT !.g = "returned", !.wg = @ - 1,
                                             !.log = "error"]
                        ELSE [sweeper EXCEPT !.g = "select", !.log = "completed"]
    /\ SweeperFrame

SweepEnd ==
    /\ sweeper.g = "sweep"
    /\ \E failed \in BOOLEAN :
          /\ sessions' = IF failed THEN sessions
                         ELSE DeleteExpiredSessions(sessions).rows
          /\ sweeper' = [sweeper EXCEPT !.g = "select",
                                        !.log = IF failed THEN "error"
                                                ELSE "completed"]
    /\ SweeperFrame

\* select takes case <-c.stop: return, and the deferred wg.Done()
SweeperReturn ==
    /\ sweeper.g = "select"
    /\ sweeper.stop = "closed"
    /\ sweeper' = [sweeper EXCEPT !.g = "returned", !.wg = @ - 1]
    /\ UNCHANGED sessions
    /\ SweeperFrame

\* Stop, first statement: close(c.stop). Stop is called once: closing a
\* closed channel panics.
StopClose ==
    /\ sweeper.caller = "idle"
    /\ sweeper.stop = "open"
    /\ sweeper' = [sweeper EXCEPT !.stop = "closed", !.caller = "wait"]
    /\ UNCHANGED sessions
    /\ SweeperFrame

\* Faulty Stop: returns without waiting for the WaitGroup
StopWait_NoWait ==
    /\ sweeper.caller = "wait"
    /\ sweeper' = [sweeper EXCEPT !.caller = "returned"]
    /\ UNCHANGED sessions
    /\ SweeperFrame

\* Stop, second statement: c.wg.Wait() returns when the counter is zero
StopWait ==
    /\ sweeper.caller = "wait"
    /\ sweeper.wg = 0
    /\ sweeper' = [sweeper EXCEPT !.caller = "returned"]
    /\ UNCHANGED sessions
    /\ SweeperFrame

\* sessions of two users, one expiring early and one late
SeedSessions ==
    {[userId |-> "u1", clientId |-> "c1", refreshToken |-> 1,
      userAgent |-> "test-agent", expiresAt |-> Instants[2], deleted |-> FALSE],
     [userId |-> "u2", clientId |-> "c1", refreshToken |-> 2,
      userAgent |-> "test-agent", expiresAt |-> Instants[4], deleted |-> FALSE]}

InitSweeper ==
    /\ ConcInit
    /\ clients = {[clientId |-> c, clientName |-> "app", deleted |-> FALSE] :
                     c \in SeedClients}
    /\ users = {SeedUser, OtherUser}
    /\ sessions = SeedSessions
    /\ now = 0
    /\ nextRefresh = 3
    /\ issued = {}
    /\ resp = [op |-> "none"]
    /\ failAt = 0

NextSweeper ==
    \/ Start
    \/ Tick
    \/ SweepBegin
    \/ SweepEnd
    \/ SweeperReturn
    \/ StopClose
    \/ StopWait
    \/ Advance

SpecSweeper == InitSweeper /\ [][NextSweeper]_vars

\* a goroutine that can run does run: select takes a case that is ready, a
\* sweep comes to its end within its context's timeout
SpecSweeperFair ==
    /\ SpecSweeper
    /\ WF_vars(SweepBegin)
    /\ WF_vars(SweepEnd)
    /\ WF_vars(SweeperReturn)

\* a sweep whose DeleteExpiredSessions succeeds
SweepSucceeds == SweepEnd /\ sweeper'.log = "completed"

\* the ticker keeps ticking, and of the sweeps that are made again and again
\* one succeeds
SpecSweeperLive ==
    /\ SpecSweeperFair
    /\ WF_vars(Tick)
    /\ SF_vars(SweepSucceeds)

\* ---- The handlers over a store whose user rows are also written directly ----

RenamedTo == "alicia"     \* the user name UpdateUser may write

StoreFrame == UNCHANGED <<clients, now, nextRefresh, issued, resp, failAt, conc>>

\* repo.DeleteUser(userID), called on the store directly
StoreDeleteUser ==
    \E u \in Live(users) :
        /\ users' = DeleteUser(users, u.userId).rows
        /\ UNCHANGED sessions
        /\ StoreFrame

\* repo.UpdateUser(user) with another user name or another client
StoreUpdateUser ==
    \E u \in Live(users) : \E name \in {u.userName, RenamedTo}, c \in SeedClients :
        /\ <<name, c>> /= <<u.userName, u.clientId>>
        /\ users' = UpdateUser(users, [u EXCEPT !.userName = name,
                                               !.clientId = c]).rows
        /\ UNCHANGED sessions
        /\ StoreFrame

InitStore ==
    /\ ConcInit
    /\ clients = {[clientId |-> c, clientName |-> "app", deleted |-> FALSE] :
                     c \in SeedClients}
    /\ users = {SeedUser, OtherUser}
    /\ sessions = {}
    /\ now = 0
    /\ nextRefresh = 1
    /\ issued = {}
    /\ resp = [op |-> "none"]
    /\ failAt = 0

NextStore ==
    \/ LoginUser
    \/ ChangePassword
    \/ StoreDeleteUser
    \/ StoreUpdateUser

SpecStore == InitStore /\ [][NextStore]_vars

\* =================================================================== claims
\* What a caller observes in the current state.
Validates(tok) == ValidateTokenOutcome([accessToken |-> tok]).resp.valid

ValidatesAs(tok, userId) ==
    LET r == ValidateTokenOutcome([accessToken |-> tok]).resp
    IN  r.valid /\ r.userId = userId

\* Refresh presenting R fails with "Invalid refresh token", whatever the client
RefreshRejected(R) ==
    \A c \in ClientIdInputs :
        LET r == RefreshTokenOutcome([refreshToken |-> R, clientId |-> c]).resp
        IN  ~r.success /\ r.message = "Invalid refresh token"

\* the step is an RPC named op that succeeded, and changed a table or issued
\* a token
Did(op) == resp' /= resp /\ resp'.op = op /\ resp'.success

\* A token that fails Validate fails it for ever; a generated refresh value
\* that Refresh rejects is rejected for ever.  Both read users, sessions and
\* the clock only.
StaysInvalid ==
    \/ UNCHANGED <<users, sessions, now>>
    \/ \A tok \in issued : ~Validates(tok) => ~Validates(tok)'

StaysRejected ==
    \/ UNCHANGED <<users, sessions, now>>
    \/ \A R \in 1..(nextRefresh - 1) : RefreshRejected(R) => RefreshRejected(R)'

\* C1: in every reachable state the store holds at most one active (not
\* deleted) session per (user, client) pair, and a Login that succeeds leaves
\* exactly one active session for its pair, the one carrying the refresh
\* value it returned.
OneSessionPerPair ==
    \A s1 \in Live(sessions), s2 \in Live(sessions) : SamePair(s1, s2) => s1 = s2

C1_LoginReplaces ==
    Did("LoginUser") =>
        \E s \in Live(sessions') :
            /\ s.refreshToken = resp'.refreshToken
            /\ {x \in Live(sessions') : x.userId = resp'.user.userId
                                        /\ x.clientId = resp'.user.clientId} = {s}

C2_TouchesUser(tok) ==
    /\ resp' /= resp
    /\ \/ resp'.op = "LoginUser" /\ resp'.user.userId = tok.userId
       \/ resp'.op = "RefreshToken" /\ resp'.accessToken.userId = tok.userId
       \/ resp'.op = "LogoutUser" /\ resp'.req.refreshToken = tok.refreshToken
       \/ resp'.op = "ChangePassword" /\ resp'.req.accessToken.userId = tok.userId

C2_AfterLogin ==
    Did("LoginUser") =>
        \A tok \in issued' :
            tok = resp'.accessToken =>
                tok.userId = resp'.user.userId /\ ValidatesAs(tok, tok.userId)'

C2_Keeps ==
    \/ UNCHANGED <<users, sessions, now>>
    \/ \A tok \in issued :
          ( /\ ValidatesAs(tok, tok.userId)
            /\ ~C2_TouchesUser(tok)
            /\ tok.exp > now'
            /\ \A s \in sessions :
                  (s.userId = tok.userId /\ s.clientId = tok.clientId)
                      => s.expiresAt > now' )
          => ValidatesAs(tok, tok.userId)'

C2_ValidateAfterLogin == [][C2_AfterLogin /\ C2_Keeps]_vars

\* the token of the first Login still validates after the clock has moved
C2_Witness ==
    \E tok \in issued :
        /\ tok.refreshToken = 1
        /\ tok.exp - AccessTokenTTL < now
        /\ ValidatesAs(tok, tok.userId)
        /\ resp.op = "LoginUser" /\ resp.accessToken = tok

\* C3: a Refresh that succeeds returns a refresh value different from the one
\* presented, and from then on every Refresh presenting the old value fails
\* with "Invalid refresh token".
C3_Rotates ==
    Did("RefreshToken") =>
        /\ resp'.refreshToken /= resp'.req.refreshToken
        /\ \A R \in 1..(nextRefresh - 1) :
              R = resp'.req.refreshToken => RefreshRejected(R)'

C3_RefreshRotation == [][C3_Rotates /\ StaysRejected]_vars

\* a Refresh succeeded, and the value it was given is rejected now
C3_Witness ==
    /\ resp.op = "RefreshToken"
    /\ resp.success
    /\ resp.req.refreshToken \in 1..(nextRefresh - 1)
    /\ RefreshRejected(resp.req.refreshToken)
    /\ \E s \in Live(sessions) :
          s.refreshToken = resp.refreshToken /\ s.expiresAt > now

\* C4: after a Refresh that succeeds, Validate fails, then and for ever, with
\* every access token issued before it to the same user and client.
C4_RefreshKills ==
    Did("RefreshToken") =>
        \A tok \in issued :
            (tok.userId = resp'.accessToken.userId
             /\ tok.clientId = resp'.accessToken.clientId) => ~Validates(tok)'

C4_RefreshInvalidatesAccess == [][C4_RefreshKills /\ StaysInvalid]_vars

\* after a Refresh, an older token of the pair is signed and not expired, and
\* fails Validate
C4_Witness ==
    /\ resp.op = "RefreshToken"
    /\ \E tok \in issued :
          /\ tok.userId = resp.accessToken.userId
          /\ tok.clientId = resp.accessToken.clientId
          /\ tok.refreshToken = resp.req.refreshToken
          /\ tok.sig = "ok" /\ tok.exp > now
          /\ ~Validates(tok)
          /\ Validates(resp.accessToken)

\* C5: after a Logout that succeeds presenting R, Validate fails, then and for
\* ever, with every access token bound to R.
C5_LogoutKills ==
    Did("LogoutUser") =>
        \A tok \in issued :
            tok.refreshToken = resp'.req.refreshToken => ~Validates(tok)'

\* a Logout that succeeds and changes no table leaves no response behind:
\* the tokens bound to its refresh value fail Validate already
C5_LogoutNoOp ==
    \A req \in LogoutRequests :
        ( /\ LogoutUserOutcome(req).resp.success
          /\ LogoutUserOutcome(req).sessions = sessions )
        => \A tok \in issued :
              tok.refreshToken = req.refreshToken => ~Validates(tok)

C5_LogoutInvalidatesAccess ==
    []C5_LogoutNoOp /\ [][C5_LogoutKills /\ StaysInvalid]_vars

\* a Logout deleted the session of R, and a token bound to R is signed and not
\* expired, its session's life is not over, and it fails Validate
C5_Witness ==
    /\ resp.op = "LogoutUser"
    /\ \E tok \in issued :
          /\ tok.refreshToken = resp.req.refreshToken
          /\ tok.sig = "ok" /\ tok.exp > now
          /\ \E s \in sessions :
                s.refreshToken = tok.refreshToken /\ s.deleted /\ s.expiresAt > now
          /\ ~Validates(tok)

\* C6: after a ChangePassword that succeeds for user u the store holds no
\* active session of u, and then and for ever Validate fails with every
\* access token issued to u before, and Refresh is rejected with every refresh
\* value issued to u before.
C6_UserCutOff(userId) ==
    /\ \A s \in Live(sessions) : s.userId /= userId
    /\ \A tok \in issued :
          tok.userId = userId => ~Validates(tok) /\ RefreshRejected(tok.refreshToken)

C6_ChangeKills ==
    Did("ChangePassword") =>
        \A u \in users : u.userId = resp'.req.accessToken.userId
                              => C6_UserCutOff(u.userId)'

\* a ChangePassword that succeeds and changes no table leaves no response
\* behind: its user is cut off already
C6_ChangeNoOp ==
    \A req \in ChangePasswordRequests :
        ( /\ ChangePasswordOutcome(req).resp.success
          /\ ChangePasswordOutcome(req).users = users
          /\ ChangePasswordOutcome(req).sessions = sessions )
        => C6_UserCutOff(req.accessToken.userId)

C6_PasswordChangeRevokes ==
    []C6_ChangeNoOp /\ [][C6_ChangeKills /\ StaysInvalid /\ StaysRejected]_vars

\* a ChangePassword succeeded for a user who holds a signed token that is not
\* expired and whose session's life is not over
C6_Witness ==
    /\ resp.op = "ChangePassword"
    /\ resp.success
    /\ \E tok \in issued :
          /\ tok.userId = resp.req.accessToken.userId
          /\ tok.sig = "ok" /\ tok.exp > now
          /\ \E s \in sessions :
                s.refreshToken = tok.refreshToken /\ s.deleted /\ s.expiresAt > now
          /\ ~Validates(tok)
          /\ RefreshRejected(tok.refreshToken)

\* C7 (as the specification states it): Logout presenting a refresh value
\* that no active session holds fails with "Invalid refresh token".
C7_LogoutUnmatchedFails ==
    \A req \in LogoutRequests :
        ( /\ req.refreshToken /= NoRefresh
          /\ \A s \in Live(sessions) : s.refreshToken /= req.refreshToken )
        => /\ ~LogoutUserOutcome(req).resp.success
           /\ LogoutUserOutcome(req).resp.message = "Invalid refresh token"

\* C8: for an existing client, Login answers alike when no user has the
\* email, when the user of the email belongs to another client, and when the
\* password does not verify: failure, "Invalid credentials", no token, no
\* profile, and no table changed.
C8_UnknownEmail(req) == \A u \in Live(users) : u.email /= req.email

C8_OtherClient(req) ==
    \E u \in Live(users) : u.email = req.email /\ u.clientId /= req.clientId

C8_WrongPassword(req) ==
    \E u \in Live(users) :
        /\ u.email = req.email /\ u.clientId = req.clientId
        /\ ~CheckPasswordHash(req.password, u.password)

C8_Rejected(req) ==
    LET o == LoginUserOutcome(req)
    IN  /\ [o.resp EXCEPT !.req = 0] =
              [op |-> "LoginUser", req |-> 0, success |-> FALSE,
               message |-> "Invalid credentials", accessToken |-> NoAccessToken,
               refreshToken |-> NoRefresh, expiresAt |-> 0, user |-> NoProfile]
        /\ <<o.clients, o.users, o.sessions, o.issued, o.nextRefresh>> =
              <<clients, users, sessions, issued, nextRefresh>>

C8_LoginFailsAlike ==
    \A req \in LoginRequests :
        ( /\ IsClientExists(clients, req.clientId)
          /\ C8_UnknownEmail(req) \/ C8_OtherClient(req) \/ C8_WrongPassword(req) )
        => C8_Rejected(req)

\* one state offers all three cases, each to an existing client
C8_Witness ==
    \E r1 \in LoginRequests, r2 \in LoginRequests, r3 \in LoginRequests :
        /\ \A r \in {r1, r2, r3} : IsClientExists(clients, r.clientId)
        /\ C8_UnknownEmail(r1) /\ C8_OtherClient(r2) /\ C8_WrongPassword(r3)
        /\ C8_Rejected(r1) /\ C8_Rejected(r2) /\ C8_Rejected(r3)

\* C9: after a Login that succeeds, Validate fails, then and for ever, with
\* every access token issued before it to the same user and client, and
\* Refresh is rejected, then and for ever, with the refresh values those
\* tokens are bound to.
C9_LoginKills ==
    Did("LoginUser") =>
        \A tok \in issued :
            (tok.userId = resp'.user.userId /\ tok.clientId = resp'.user.clientId)
            => ~Validates(tok)' /\ RefreshRejected(tok.refreshToken)'

C10_EmailUniquePerClient ==
    \A req \in RegisterRequests :
        ( /\ validateUserRegistration(req) = ""
          /\ IsClientExists(clients, req.clientId) )
        => LET r == RegisterUserOutcome(req).resp
               taken == \E u \in Live(users) :
                           u.email = req.email /\ u.clientId = req.clientId
           IN  /\ (~r.success /\ r.message = "Email already registered") <=> taken
               /\ ~taken => r.success

\* C11 (as the specification states it): Register fails with the message of
\* a validation rule and creates no user when the username is empty, the
\* email is empty or does not match the address pattern, the password is empty
\* or shorter than 8 characters, or the client id is empty.
C11_Malformed(req) ==
    \/ req.username = ""
    \/ req.email = NoEmail \/ ~emailRegex(req.email)
    \/ req.password = "" \/ Len(req.password) < MinPasswordLen
    \/ req.clientId = ""

C11_ValidationMessages ==
    {"username is required", "email is required", "invalid email format",
     "password is required", "password must be at least 8 characters long",
     "client ID is required"}

C11_RegisterValidates ==
    \A req \in RegisterInputs :
        C11_Malformed(req)
        => /\ ~RegisterUserOutcome(req).resp.success
           /\ RegisterUserOutcome(req).resp.message \in C11_ValidationMessages
           /\ RegisterUserOutcome(req).users = users

\* C12: whenever Register succeeds, the identifier it returns is not empty,
\* the users table it leaves holds an active user with that identifier under
\* the requested client, and that user's password field is the hash of the
\* requested password and differs from the password itself; no stored
\* password field is a password any request carried.
C12_Stored(req, o) ==
    /\ o.resp.userId /= ""
    /\ \E u \in Live(o.users) :
          /\ u.userId = o.resp.userId
          /\ u.clientId = req.clientId
          /\ u.email = req.email
          /\ u.password = HashPassword(req.password)
          /\ u.password /= req.password

C12_RegisterStoresHash ==
    /\ \A req \in RegisterInputs :
          RegisterUserOutcome(req).resp.success
              => C12_Stored(req, RegisterUserOutcome(req))
    /\ \A u \in users, req \in RegisterInputs : u.password /= req.password

\* a Register succeeded and its user is in the table
C12_Witness ==
    /\ resp.op = "RegisterUser"
    /\ resp.success
    /\ resp.userId \in {UserIdPool[i] : i \in 1..Len(UserIdPool)}
    /\ \E u \in Live(users) :
          /\ u.userId = resp.userId
          /\ u.clientId = resp.req.clientId
          /\ u.password = HashPassword(resp.req.password)

\* C13: in every state, store failures included, each of Register, Login,
\* Validate, Refresh, Logout and ChangePassword answers every request with a
\* nil error and a response that carries a success (or valid) flag and a
\* message; when the store fails the handler's first store call the flag is
\* false.
C13_IsValue(o, flag) ==
    /\ o.err = Nil
    /\ flag \in BOOLEAN
    /\ o.resp.message /= ""
    /\ StoreFails(1) => ~flag

C13_ErrorsAreValues ==
    /\ \A req \in RegisterInputs :
          C13_IsValue(RegisterUserOutcome(req), RegisterUserOutcome(req).resp.success)
    /\ \A req \in LoginRequests :
          C13_IsValue(LoginUserOutcome(req), LoginUserOutcome(req).resp.success)
    /\ \A req \in ValidateRequests :
          C13_IsValue(ValidateTokenOutcome(req), ValidateTokenOutcome(req).resp.valid)
    /\ \A req \in RefreshRequests :
          C13_IsValue(RefreshTokenOutcome(req), RefreshTokenOutcome(req).resp.success)
    /\ \A req \in LogoutRequests :
          C13_IsValue(LogoutUserOutcome(req), LogoutUserOutcome(req).resp.success)
    /\ \A req \in ChangePasswordRequests :
          C13_IsValue(ChangePasswordOutcome(req),
                      ChangePasswordOutcome(req).resp.success)

\* the store fails the third call of a handler: a Login that cannot save its
\* session and a ChangePassword that cannot delete the sessions both answer
\* with a failure value
C13_Witness ==
    /\ failAt = 3
    /\ \E req \in LoginRequests :
          /\ LoginUserOutcome(req).resp.message = "Internal server error"
          /\ ~LoginUserOutcome(req).resp.success
          /\ LoginUserOutcome(req).err = Nil
    /\ \E req \in ChangePasswordRequests :
          /\ ChangePasswordOutcome(req).resp.message =
                "Password changed but failed to invalidate sessions"
          /\ ~ChangePasswordOutcome(req).resp.success
          /\ ChangePasswordOutcome(req).err = Nil

\* C14: Refresh presenting the refresh value of an active, unexpired session
\* together with the id of another client fails with "Invalid client ID" and
\* writes nothing, and Refresh presenting the same value with the session's
\* own client succeeds in the state it leaves.
C14_WrongClient(req, s) ==
    /\ s.refreshToken = req.refreshToken
    /\ s.expiresAt > now
    /\ s.clientId /= req.clientId

C14_RefreshWrongClient ==
    \A req \in RefreshRequests : \A s \in Live(sessions) :
        C14_WrongClient(req, s)
        => /\ ~RefreshTokenOutcome(req).resp.success
           /\ RefreshTokenOutcome(req).resp.message = "Invalid client ID"
           /\ RefreshTokenOutcome(req).resp.refreshToken = NoRefresh
           /\ RefreshTokenOutcome(req).sessions = sessions
           /\ RefreshTokenOutcome(req).users = users
           /\ RefreshTokenOutcome(req).issued = issued
           /\ RefreshTokenOutcome([req EXCEPT !.clientId = s.clientId]).resp.success

\* a session that is not new is presented with another existing client's id
C14_Witness ==
    \E req \in RefreshRequests : \E s \in Live(sessions) :
        /\ C14_WrongClient(req, s)
        /\ IsClientExists(clients, req.clientId)
        /\ now > 0
        /\ RefreshTokenOutcome(req).resp.message = "Invalid client ID"

\* C15: in every state, of every session row whose expires_at is not in the
\* future, deleted by the cleanup job or not, the refresh value is rejected
\* by Refresh and every access token bound to it fails Validate.
C15_ExpiredSessionRejected ==
    \A s \in sessions :
        s.expiresAt <= now
        => /\ RefreshRejected(s.refreshToken)
           /\ \A tok \in issued :
                 tok.refreshToken = s.refreshToken => ~Validates(tok)

\* an expired session the cleanup job could delete and has not, and one that
\* expires at this very instant
C15_Witness ==
    /\ \E s \in Live(sessions) :
          /\ s.expiresAt < now
          /\ \E tok \in issued : tok.refreshToken = s.refreshToken
    /\ \E s \in Live(sessions) : s.expiresAt = now

\* C16 (as the specification states it): of the Refresh calls that present
\* one refresh value, concurrent ones included, at most one succeeds.
C16_RefreshSingleUse ==
    \A a \in done, b \in done :
        ( /\ a.resp.op = "RefreshToken" /\ a.resp.success
          /\ b.resp.op = "RefreshToken" /\ b.resp.success
          /\ a.resp.req.refreshToken = b.resp.req.refreshToken )
        => a = b

\* C16 (as amended): a Refresh that presents a refresh value and begins
\* after a successful Refresh presenting the same value has returned fails
\* with "Invalid refresh token"; and of two successful Refresh calls that
\* presented the same value (they overlapped), the tokens of at most one
\* validate and the refresh value of at most one is accepted.
C16_IsRefresh(a) == a.resp.op = "RefreshToken"

C16_SingleUseOnceSuperseded ==
    \A a \in done, b \in done :
        ( /\ C16_IsRefresh(a) /\ a.resp.success
          /\ C16_IsRefresh(b) /\ b /= a
          /\ a.resp.req.refreshToken = b.resp.req.refreshToken )
        => /\ b.id > a.seen
              => ~b.resp.success /\ b.resp.message = "Invalid refresh token"
           /\ b.resp.success
              => /\ ~(Validates(a.resp.accessToken) /\ Validates(b.resp.accessToken))
                 /\ RefreshRejected(a.resp.refreshToken)
                       \/ RefreshRejected(b.resp.refreshToken)

\* a Refresh succeeded, and one that began after it had returned presented
\* the same value
C16_Witness ==
    \E a \in done, b \in done :
        /\ C16_IsRefresh(a) /\ a.resp.success
        /\ C16_IsRefresh(b) /\ b.id > a.seen
        /\ a.resp.req.refreshToken = b.resp.req.refreshToken
        /\ b.resp.message = "Invalid refresh token"

\* C17: in every interleaving of the statements of concurrent calls, a Login
\* fails only with "Invalid credentials"; the pair has at most one active
\* session; a statement of Save leaves the pair's row equal, field by field,
\* to the record of the handler that ran it, so the row that survives is the
\* last writer's; an active row holding the refresh value a Login returned
\* holds that Login's user agent; of two successful Logins the access token
\* of at most one validates, and when the two are the only calls begun,
\* exactly one session is active and exactly one of the two tokens validates.
C17_IsLogin(a) == a.resp.op = "LoginUser" /\ a.resp.success

C17_State ==
    /\ OneSessionPerPair
    /\ \A d \in done :
          (d.resp.op = "LoginUser" /\ ~d.resp.success)
              => d.resp.message = "Invalid credentials"
    /\ \A d \in done, s \in Live(sessions) :
          (C17_IsLogin(d) /\ s.refreshToken = d.resp.refreshToken)
              => s.userAgent = d.resp.req.userAgent
    /\ \A a \in done, b \in done :
          (C17_IsLogin(a) /\ C17_IsLogin(b) /\ a /= b)
          => /\ ~(Validates(a.resp.accessToken) /\ Validates(b.resp.accessToken))
             /\ calls = 2
                => /\ Cardinality(Live(sessions)) = 1
                   /\ Validates(a.resp.accessToken) \/ Validates(b.resp.accessToken)
                   /\ \A s \in Live(sessions) :
                         s.refreshToken \in {a.resp.refreshToken, b.resp.refreshToken}

C17_Write ==
    \A p \in Procs :
        (pc[p] \in {"save_update", "save_upsert"} /\ pc'[p] = "return")
        => {s \in sessions' : SamePair(s, loc[p].session)} = {loc[p].session}

Mine(p, rows) == {r \in rows : r.userId = Own[p].userId}

Others(p, rows) == rows \ Mine(p, rows)

C18_Frame ==
    \A p \in Procs :
        pc'[p] /= pc[p]
        => /\ Others(p, sessions') = Others(p, sessions)
           /\ Others(p, users') = Others(p, users)
           /\ \A q \in Procs \ {p} : pc'[q] = pc[q] /\ loc'[q] = loc[q]

C18_Local ==
    \A p \in Procs :
        /\ pc[p] = "login_read"
           => GetUserByEmail(users, loc[p].req.email)
                = GetUserByEmail(Mine(p, users), loc[p].req.email)
        /\ pc[p] = "refresh_session"
           => GetSessionByRefreshToken(sessions, loc[p].req.refreshToken)
                = GetSessionByRefreshToken(Mine(p, sessions), loc[p].req.refreshToken)
        /\ pc[p] = "refresh_user"
           => GetUserByID(users, loc[p].session.userId)
                = GetUserByID(Mine(p, users), loc[p].session.userId)
        /\ pc[p] = "save_update"
           => /\ saveUpdate(sessions, loc[p].session).affected
                   = saveUpdate(Mine(p, sessions), loc[p].session).affected
              /\ Mine(p, saveUpdate(sessions, loc[p].session).rows)
                   = saveUpdate(Mine(p, sessions), loc[p].session).rows
        /\ pc[p] = "save_upsert"
           => Mine(p, saveUpsert(sessions, loc[p].session))
                = saveUpsert(Mine(p, sessions), loc[p].session)
        /\ pc[p] = "change_user"
           => GetUserByID(users, loc[p].req.accessToken.userId)
                = GetUserByID(Mine(p, users), loc[p].req.accessToken.userId)
        /\ pc[p] = "change_update"
           => Mine(p, UpdateUser(users, loc[p].user).rows)
                = UpdateUser(Mine(p, users), loc[p].user).rows
        /\ pc[p] = "change_delete"
           => Mine(p, DeleteAllUserSessions(sessions, loc[p].user.userId).rows)
                = DeleteAllUserSessions(Mine(p, sessions), loc[p].user.userId).rows
        /\ pc[p] = "logout_delete"
           => Mine(p, DeleteSessionByRefreshToken(sessions,
                                                  loc[p].req.refreshToken).rows)
                = DeleteSessionByRefreshToken(Mine(p, sessions),
                                              loc[p].req.refreshToken).rows

C18_PairsDoNotInterfere == []C18_Local /\ [][C18_Frame]_vars

\* a ChangePassword of one user ran to success while a call of the other user
\* was in flight, and the other user's session and token are still good
C18_Witness ==
    \E a \in done, b \in done :
        /\ a.resp.op = "ChangePassword" /\ a.resp.success
        /\ b.resp.op \in {"LoginUser", "RefreshToken"} /\ b.resp.success
        /\ b.resp.accessToken.userId /= a.resp.req.accessToken.userId
        /\ b.id < a.id /\ a.id <= b.seen
        /\ Validates(b.resp.accessToken)
        /\ ~RefreshRejected(b.resp.refreshToken)

\* C19: once a ChangePassword has returned success, the access token and the
\* refresh value of every successful Login or Refresh of that user that began
\* before the ChangePassword returned are refused: the token does not
\* validate and the refresh value is answered "Invalid refresh token".
C19_ChangePasswordInvalidates ==
    \A d \in done, e \in done :
        ( /\ d.resp.op = "ChangePassword" /\ d.resp.success
          /\ e.resp.op \in {"LoginUser", "RefreshToken"} /\ e.resp.success
          /\ e.id <= d.seen )
        => /\ ~Validates(e.resp.accessToken)
           /\ RefreshRejected(e.resp.refreshToken)

\* C20: once Stop has been called the stop channel is closed; Stop returns
\* only when the sweeper goroutine is no longer running, so not while a sweep
\* is in flight; and after Stop has returned no sweep is running, none
\* starts, and the sweeper changes no session.
C20_Stopped ==
    /\ sweeper.caller \in {"wait", "returned"} => sweeper.stop = "closed"
    /\ sweeper.caller = "returned"
          => sweeper.g \in {"none", "returned"} /\ sweeper.wg = 0

C20_NoSweepAfterStop ==
    /\ (sweeper.caller /= "returned" /\ sweeper'.caller = "returned")
          => sweeper.g /= "sweep"
    /\ sweeper.caller = "returned"
          => /\ sweeper'.g = sweeper.g
             /\ sessions' = sessions

C20_SweeperShutdown == []C20_Stopped /\ [][C20_NoSweepAfterStop]_vars

\* Stop has returned, the goroutine took the stop case though a tick was
\* waiting, and an expired session is left for a sweep that never starts
C20_Witness ==
    /\ sweeper.caller = "returned"
    /\ sweeper.g = "returned"
    /\ sweeper.tick
    /\ \E s \in Live(sessions) : s.expiresAt < now

\* Stop has signalled and waits while a sweep is in flight
C20_WaitsForSweep ==
    /\ sweeper.caller = "wait"
    /\ sweeper.g = "sweep"

\* C21: after a sweep that failed, and as long as Stop has not been called,
\* the sweeper goroutine is still in its loop (at select or in a sweep), and
\* at select a waiting tick can start the next sweep; with a goroutine that
\* runs when it can, a tick that waits after a failed sweep leads to a new
\* sweep, unless Stop is called first.
C21_StillLooping ==
    (sweeper.log = "error" /\ sweeper.stop = "open")
    => /\ sweeper.g \in {"select", "sweep"}
       /\ (sweeper.g = "select" /\ sweeper.tick) => ENABLED SweepBegin

C21_SweepsAgain ==
    (sweeper.log = "error" /\ sweeper.tick /\ sweeper.g = "select"
        /\ sweeper.stop = "open")
    ~> (sweeper.g = "sweep" \/ sweeper.stop = "closed")

C21_FailedSweepContinues == []C21_StillLooping /\ C21_SweepsAgain

\* a sweep is running after an earlier one failed, and Stop was not called
C21_Witness ==
    /\ sweeper.log = "error"
    /\ sweeper.g = "sweep"
    /\ sweeper.stop = "open"

\* C22: for every access token that decodes, Validate answers "User not
\* found" when no user with the token's user id exists, and "Invalid token
\* claims" when the user exists with another user name or another client
\* than the token carries; in neither case is the token valid, whether or
\* not a session with the token's refresh value is active.
C22_Answer(tok) == ValidateTokenOutcome([accessToken |-> tok]).resp

C22_Decodes(tok) == ValidateJWTToken(tok).err = ""

C22_ValidateFailsClosed ==
    \A tok \in issued :
        C22_Decodes(tok)
        => LET found == GetUserByID(users, tok.userId)
               r     == C22_Answer(tok)
           IN  /\ ~found.found
                  => ~r.valid /\ r.message = "User not found"
               /\ (found.found
                     /\ (found.row.userName /= tok.username
                           \/ found.row.clientId /= tok.clientId))
                  => ~r.valid /\ r.message = "Invalid token claims"

C22_SessionActive(tok) ==
    \E s \in Live(sessions) :
        /\ s.userId = tok.userId /\ s.clientId = tok.clientId
        /\ s.refreshToken = tok.refreshToken
        /\ s.expiresAt > now

\* one token whose user is gone and one whose user carries another name, each
\* with its session still active
C22_Witness ==
    \E t1 \in issued, t2 \in issued :
        /\ C22_Decodes(t1) /\ C22_Decodes(t2)
        /\ C22_SessionActive(t1) /\ C22_SessionActive(t2)
        /\ ~GetUserByID(users, t1.userId).found
        /\ C22_Answer(t1).message = "User not found"
        /\ GetUserByID(users, t2.userId).found
        /\ GetUserByID(users, t2.userId).row.userName /= t2.username
        /\ C22_Answer(t2).message = "Invalid token claims"

\* C23: a Login or Refresh at time t issues an access token that expires at
\* t + 24 hours and reports that expiry; Validate accepts a token only while
\* now is strictly before the token's expiry, reporting that same expiry, and
\* refuses it from the expiry on, whether or not its session is still active.
C23_Window ==
    \A tok \in issued :
        LET r == ValidateTokenOutcome([accessToken |-> tok]).resp
        IN  /\ r.valid => now < tok.exp /\ r.expiresAt = tok.exp
            /\ now >= tok.exp => ~r.valid /\ r.message = "Invalid token"

C23_Issued ==
    \A op \in {"LoginUser", "RefreshToken"} :
        Did(op) => /\ resp'.accessToken.exp = now + 24
                   /\ resp'.expiresAt = now + 24
                   /\ resp'.accessToken \in issued'

C24_WrongPassword(req) ==
    /\ ValidateJWTToken(req.accessToken).err = ""
    /\ GetUserByID(users, req.accessToken.userId).found
    /\ ~CheckPasswordHash(req.currentPassword,
                          GetUserByID(users, req.accessToken.userId).row.password)

C24_WrongCurrentPassword ==
    \A req \in ChangePasswordRequests :
        C24_WrongPassword(req)
        => LET o == ChangePasswordOutcome(req)
           IN  /\ ~o.resp.success
               /\ o.resp.message = "Current password is incorrect"
               /\ o.users = users
               /\ o.sessions = sessions

\* a user with an active session, a token that decodes and a wrong current
\* password
C24_Witness ==
    \E req \in ChangePasswordRequests :
        /\ C24_WrongPassword(req)
        /\ \E s \in Live(sessions) :
              s.userId = req.accessToken.userId /\ s.expiresAt > now

\* C25: as long as the last call that changed the store is a successful
\* ChangePassword from a current password P to a new password Q other than
\* P, Login with the user's email and client answers "Invalid credentials"
\* for P and, for Q, succeeds and leaves an active session of the pair that
\* carries a refresh value never used before.
C25_Login(email, password, clientId) ==
    LoginUserOutcome([email |-> email, password |-> password,
                      clientId |-> clientId, userAgent |-> "web"])

C25_OldRefusedNewAccepted(userId, P, Q) ==
    \A u \in Live(users) :
        u.userId = userId
        => LET old == C25_Login(u.email, P, u.clientId)
               new == C25_Login(u.email, Q, u.clientId)
           IN  /\ ~old.resp.success
               /\ old.resp.message = "Invalid credentials"
               /\ old.sessions = sessions
               /\ new.resp.success
               /\ new.resp.refreshToken = nextRefresh
               /\ \A s \in sessions : s.refreshToken /= nextRefresh
               /\ \E s \in Live(new.sessions) :
                     /\ s.userId = u.userId /\ s.clientId = u.clientId
                     /\ s.refreshToken = new.resp.refreshToken
                     /\ s.expiresAt > now

C25_LoginAfterChange ==
    ( /\ resp.op = "ChangePassword" /\ resp.success
      /\ resp.req.currentPassword /= resp.req.newPassword )
    => C25_OldRefusedNewAccepted(resp.req.accessToken.userId,
                                 resp.req.currentPassword, resp.req.newPassword)

\* the last call that changed the store was a ChangePassword from one
\* password to another, and the user's session is gone
C25_Witness ==
    /\ resp.op = "ChangePassword" /\ resp.success
    /\ resp.req.currentPassword /= resp.req.newPassword
    /\ \E u \in Live(users) : u.userId = resp.req.accessToken.userId
    /\ \A s \in Live(sessions) : s.userId /= resp.req.accessToken.userId

\* C26: ChangePassword refuses an access token that does not decode, one
\* whose user no longer exists, and one whose user name or client id differs
\* from the current user record.
C26_Refused(tok) ==
    \A P \in Passwords :
        ~ChangePasswordOutcome([accessToken |-> tok, currentPassword |-> P,
                                newPassword |-> NewPassword]).resp.success

C26_ChangePasswordChecksClaims ==
    \A tok \in AccessTokenInputs \ {NoAccessToken} :
        LET found == GetUserByID(users, tok.userId)
        IN  /\ ValidateJWTToken(tok).err /= "" => C26_Refused(tok)
            /\ (ValidateJWTToken(tok).err = "" /\ ~found.found) => C26_Refused(tok)
            /\ (ValidateJWTToken(tok).err = "" /\ found.found
                  /\ ~claimsMatch(found.row, tok)) => C26_Refused(tok)

\* the first two cases alone: a token that does not decode, a user that is
\* gone
C26_DecodeAndUserChecked ==
    \A tok \in AccessTokenInputs \ {NoAccessToken} :
        (ValidateJWTToken(tok).err /= "" \/ ~GetUserByID(users, tok.userId).found)
        => C26_Refused(tok)

\* C27: a successful Login or Refresh at time t leaves the pair's session
\* with expires_at = t + 7 * 24 hours under the refresh value it returned,
\* and in every state the refresh value of an active session is accepted by
\* Refresh (for the session's client) exactly when now is strictly before
\* that expires_at.
C27_Accepted(s) ==
    RefreshTokenOutcome([refreshToken |-> s.refreshToken,
                         clientId |-> s.clientId]).resp.success

C27_Window == \A s \in Live(sessions) : C27_Accepted(s) <=> now < s.expiresAt

C27_Written ==
    \A op \in {"LoginUser", "RefreshToken"} :
        Did(op)
        => \E s \in Live(sessions') :
              /\ s.refreshToken = resp'.refreshToken
              /\ s.expiresAt = now + 7 * 24
              /\ \A other \in Live(sessions') : SamePair(other, s) => other = s

C27_SlidingExpiry == []C27_Window /\ [][C27_Written]_vars

\* a Refresh moved the expiry: the session is accepted at an instant at which
\* the window of any Login made at the start has closed
C27_Witness ==
    /\ resp.op = "RefreshToken" /\ resp.success
    /\ now >= 7 * 24
    /\ \E s \in Live(sessions) :
          /\ s.refreshToken = resp.refreshToken
          /\ now < s.expiresAt
          /\ C27_Accepted(s)

\* C28: in every state no two session rows, soft-deleted ones included,
\* carry the same refresh value, and saving any session record, also one
\* whose refresh value another pair's row already holds, leaves it so.
C28_Unique(S) == \A a \in S, b \in S : a.refreshToken = b.refreshToken => a = b

C28_Records ==
    [userId : {u.userId : u \in users}, clientId : SeedClients,
     refreshToken : 1..nextRefresh, userAgent : UserAgents,
     expiresAt : {now + SessionTTL}, deleted : {FALSE}]

C28_RefreshValuesUnique ==
    /\ C28_Unique(sessions)
    /\ \A session \in C28_Records :
          C28_Unique(CreateOrUpdateSession(sessions, session).rows)

\* two pairs hold sessions, and a record for one pair with the other's
\* refresh value is refused by the store
C28_Witness ==
    \E a \in Live(sessions), b \in Live(sessions) :
        /\ ~SamePair(a, b)
        /\ CreateOrUpdateSession(sessions,
                                 [a EXCEPT !.refreshToken = b.refreshToken]).err

\* C29: Register and Login requests that name a client id that is not
\* registered, with every combination of well-formed, malformed and missing
\* user name, email and password.
C29_RegisterRequests ==
    [username : {"alice", ""}, email : {E1, E2, BadEmail, NoEmail},
     password : {OldPassword, "short", ""}, clientId : {"zz"}]

C29_LoginRequests ==
    [email : {E1, E2, NoEmail}, password : Passwords \cup {""},
     clientId : {"zz"}, userAgent : UserAgents]

C29_Untouched(o) ==
    ~o.resp.success /\ o.users = users /\ o.sessions = sessions

\* C29 as stated: every such request is answered "Invalid client ID" and
\* creates no user and no session.
C29_UnknownClientAlways ==
    /\ \A req \in C29_RegisterRequests :
          LET o == RegisterUserOutcome(req)
          IN  o.resp.message = "Invalid client ID" /\ C29_Untouched(o)
    /\ \A req \in C29_LoginRequests :
          LET o == LoginUserOutcome(req)
          IN  o.resp.message = "Invalid client ID" /\ C29_Untouched(o)

\* C29, amended: every such request fails and creates no user and no
\* session; it is answered "Invalid client ID" when it passes the field
\* validation of its handler, and with the validation message otherwise.
C29_UnknownClient ==
    /\ \A req \in C29_RegisterRequests :
          LET o == RegisterUserOutcome(req)
          IN  /\ C29_Untouched(o)
              /\ o.resp.message = IF validateUserRegistration(req) = ""
                                  THEN "Invalid client ID"
                                  ELSE validateUserRegistration(req)
    /\ \A req \in C29_LoginRequests :
          LET o == LoginUserOutcome(req)
          IN  /\ C29_Untouched(o)
              /\ o.resp.message =
                    IF req.email /= NoEmail /\ req.password /= ""
                    THEN "Invalid client ID"
                    ELSE "Email, password, and client ID are required"

\* a registered user with an active session, whose own email and password
\* are refused for the unknown client, as is a Register of a new email
C29_Witness ==
    \E u \in Live(users), s \in Live(sessions) :
        /\ s.userId = u.userId
        /\ u.password = HashPassword(OldPassword)
        /\ LoginUserOutcome([email |-> u.email, password |-> OldPassword,
                             clientId |-> "zz", userAgent |-> "web"]).resp.message
              = "Invalid client ID"
        /\ \E req \in C29_RegisterRequests :
              /\ ~IsEmailExists(users, req.email)
              /\ RegisterUserOutcome(req).resp.message = "Invalid client ID"

\* C30: in every state each session row that is not deleted belongs to a
\* user row that is not deleted, so that after DeleteUser(u) no session of u
\* is left.
C30_SessionsHaveUsers ==
    \A s \in Live(sessions) : \E u \in Live(users) : u.userId = s.userId

\* C31: with a ticker that keeps ticking and a store on which a sweep
\* succeeds in the end, every active session whose expires_at lies before
\* now, seen while the sweeper goroutine runs and Stop has not been called,
\* is later deleted, unless Stop is called first.
C31_ExpiredEventuallySwept ==
    \A s \in SeedSessions :
        ( /\ s \in sessions
          /\ s.expiresAt < now
          /\ sweeper.g \in {"select", "sweep"}
          /\ sweeper.stop = "open" )
        ~> ( \/ [s EXCEPT !.deleted = TRUE] \in sessions
             \/ sweeper.stop = "closed" )

\* a sweep has deleted an expired session and Stop has not been called
C31_Witness ==
    /\ sweeper.stop = "open"
    /\ sweeper.log = "completed"
    /\ \E s \in SeedSessions :
          /\ s.expiresAt < now
          /\ [s EXCEPT !.deleted = TRUE] \in sessions

\* C32: a sweep changes a session row only by deleting it, and only a row
\* whose expires_at is before now; a session that its refresh value or its
\* pair still finds is in the table unchanged after the sweep; users and
\* clients are as before.
C32_Found(s) ==
    \/ GetSessionByRefreshToken(sessions, s.refreshToken) = [found |-> TRUE, row |-> s]
    \/ GetSessionByUserAndClient(sessions, s.userId, s.clientId)
          = [found |-> TRUE, row |-> s]

C32_Sweep ==
    (sweeper.g = "sweep" /\ sweeper'.g /= "sweep")
    => /\ \A s \in sessions :
             /\ s \notin sessions'
                  => /\ ~s.deleted
                     /\ s.expiresAt < now
                     /\ [s EXCEPT !.deleted = TRUE] \in sessions'
             /\ C32_Found(s) => s \in sessions'
       /\ Cardinality(sessions') = Cardinality(sessions)
       /\ users' = users
       /\ clients' = clients

C32_SweepOnlyExpired == [][C32_Sweep]_vars

\* a sweep has deleted the session that had expired and left the one that
\* a lookup still finds
C32_Witness ==
    /\ sweeper.log = "completed"
    /\ \E s \in sessions : s.deleted /\ s.expiresAt < now
    /\ \E s \in Live(sessions) : s.expiresAt > now /\ C32_Found(s)

\* the stored sessions of the pair that a session lookup returns at this hour
C33_Current(userId, clientId) ==
    {s \in Live(sessions) :
        s.userId = userId /\ s.clientId = clientId /\ s.expiresAt > now}

\* C33: in every reachable state and for every user and client, the access
\* tokens that pass Validate (issued ones and tampered copies alike) all carry
\* the refresh value of the pair's one stored session that has not expired;
\* a pair without such a session has no token that passes Validate.
C33_OneRefreshPerPair ==
    \A tok \in AccessTokenInputs \ {NoAccessToken} :
        Validates(tok) =>
            /\ C33_Current(tok.userId, tok.clientId) /= {}
            /\ \A s \in C33_Current(tok.userId, tok.clientId) :
                  s.refreshToken = tok.refreshToken
            /\ \A other \in AccessTokenInputs \ {NoAccessToken} :
                  (Validates(other) /\ other.userId = tok.userId
                   /\ other.clientId = tok.clientId)
                      => other.refreshToken = tok.refreshToken

\* the pair has two signed, unexpired tokens with different refresh values:
\* one passes Validate and the other does not
C33_Witness ==
    \E tok \in issued, old \in issued :
        /\ old.userId = tok.userId /\ old.clientId = tok.clientId
        /\ old.refreshToken /= tok.refreshToken
        /\ old.sig = "ok" /\ old.exp > now
        /\ Validates(tok) /\ ~Validates(old)

\* the messages of the refusals that the caller's input causes
C34_InputFailures ==
    {"Email, password, and client ID are required", "Invalid client ID",
     "Invalid credentials", "Refresh token and client ID are required",
     "Invalid refresh token", "Refresh token is required"}

C34_Refused(o) == ~o.resp.success /\ o.resp.message \in C34_InputFailures

C34_Untouched(o) == o.users = users /\ o.sessions = sessions

\* a refresh value that was issued to a pair and is no longer the value of the
\* pair's session, while the pair has a session
C34_Superseded(R) ==
    \E tok \in issued :
        /\ tok.refreshToken = R
        /\ C33_Current(tok.userId, tok.clientId) /= {}
        /\ \A s \in C33_Current(tok.userId, tok.clientId) : s.refreshToken /= R

\* C34: a Login, Refresh or Logout that is refused for its input (a missing
\* field, an unknown client, bad credentials, an unknown or superseded refresh
\* value, another client's refresh value) writes no user and no session; a
\* superseded refresh value replayed to Refresh or Logout leaves the sessions
\* as they are.
C34_FailureFrame ==
    /\ \A req \in LoginRequests :
          C34_Refused(LoginUserOutcome(req)) => C34_Untouched(LoginUserOutcome(req))
    /\ \A req \in RefreshRequests :
          /\ C34_Refused(RefreshTokenOutcome(req))
                => C34_Untouched(RefreshTokenOutcome(req))
          /\ C34_Superseded(req.refreshToken)
                => /\ C34_Refused(RefreshTokenOutcome(req))
                   /\ C34_Untouched(RefreshTokenOutcome(req))
    /\ \A req \in LogoutRequests :
          /\ C34_Refused(LogoutUserOutcome(req))
                => C34_Untouched(LogoutUserOutcome(req))
          /\ C34_Superseded(req.refreshToken)
                => C34_Untouched(LogoutUserOutcome(req))

\* a pair has a session, a superseded refresh value is replayed and refused,
\* and a Login with a wrong password and a Refresh from another client are
\* refused as well
C34_Witness ==
    /\ \E req \in RefreshRequests :
          /\ C34_Superseded(req.refreshToken)
          /\ RefreshTokenOutcome(req).resp.message = "Invalid refresh token"
    /\ \E req \in RefreshRequests :
          RefreshTokenOutcome(req).resp.message = "Invalid client ID"
    /\ \E req \in LoginRequests :
          /\ req.email = E1 /\ req.clientId = "c1"
          /\ LoginUserOutcome(req).resp.message = "Invalid credentials"

\* the step is a session write of a Login
C35_LoginWrites ==
    \E p \in Procs :
        /\ loc[p].op = "LoginUser"
        /\ pc[p] \in {"save_update", "save_upsert"}
        /\ pc'[p] /= pc[p]

\* C35: once a Logout has returned success, a pair left without an active
\* session gets one again only by the session write of a Login; the write of
\* a Refresh that read the session before the delete does not bring it back.
C35_NoRecreation ==
    ( /\ \E d \in done : d.resp.op = "LogoutUser" /\ d.resp.success
      /\ Live(sessions) = {}
      /\ Live(sessions') /= {} )
    => C35_LoginWrites

C35_LogoutFinal == [][C35_NoRecreation]_vars

\* the Registers with this email that have returned success
C36_Registered(email) ==
    {d \in done : /\ d.resp.op = "RegisterUser" /\ d.resp.success
                  /\ d.resp.req.email = email}

C37_SweepStep ==
    /\ sessions' /= sessions
    /\ sessions' = DeleteExpiredSessions(sessions).rows
    /\ UNCHANGED <<clients, users, now, nextRefresh, issued>>

\* two outcomes of one call answer alike and leave stores that differ at most
\* in rows a sweep removes
C37_Same(before, after) ==
    /\ after.resp = before.resp
    /\ after.err = before.err
    /\ after.users = before.users
    /\ after.clients = before.clients
    /\ after.issued = before.issued
    /\ after.nextRefresh = before.nextRefresh
    /\ DeleteExpiredSessions(after.sessions).rows
          = DeleteExpiredSessions(before.sessions).rows

\* C37: a sweep changes the answer of no Login, Validate, Refresh, Logout or
\* ChangePassword: in every reachable state, swept earlier or not, each call
\* answers after a sweep what it answers without it, and the stores the two
\* calls leave are the same once swept.
C37_SweepChangesNoAnswer ==
    C37_SweepStep =>
        /\ \A req \in LoginRequests :
              C37_Same(LoginUserOutcome(req), LoginUserOutcome(req)')
        /\ \A req \in ValidateRequests :
              C37_Same(ValidateTokenOutcome(req), ValidateTokenOutcome(req)')
        /\ \A req \in RefreshRequests :
              C37_Same(RefreshTokenOutcome(req), RefreshTokenOutcome(req)')
        /\ \A req \in LogoutRequests :
              C37_Same(LogoutUserOutcome(req), LogoutUserOutcome(req)')
        /\ \A req \in ChangePasswordRequests :
              C37_Same(ChangePasswordOutcome(req), ChangePasswordOutcome(req)')

C37_SweeperUnobservable == [][C37_SweepChangesNoAnswer]_vars

\* a sweep has work to do: a session has expired and is still stored, its
\* refresh value is refused, and a Login of its user succeeds
C37_Witness ==
    \E s \in Live(sessions) :
        /\ s.expiresAt < now
        /\ DeleteExpiredSessions(sessions).rows /= sessions
        /\ RefreshRejected(s.refreshToken)
        /\ \E req \in LoginRequests :
              /\ LoginUserOutcome(req).resp.success
              /\ LoginUserOutcome(req).resp.user.userId = s.userId

\* C38: whatever token it is given and whatever it answers, ValidateToken
\* writes no user, no client and no session: the session keeps its expiry and
\* its refresh value.
C38_ValidateReadOnly ==
    \A req \in ValidateRequests :
        /\ ValidateTokenOutcome(req).users = users
        /\ ValidateTokenOutcome(req).clients = clients
        /\ ValidateTokenOutcome(req).sessions = sessions

\* a token validates some hours after its session was written, and another
\* token is refused
C38_Witness ==
    /\ \E tok \in issued, s \in Live(sessions) :
          /\ Validates(tok)
          /\ s.refreshToken = tok.refreshToken
          /\ s.expiresAt < now + SessionTTL
    /\ \E tok \in issued : ~Validates(tok)

\* the token is signed and not expired, its user is stored, and the request
\* carries that user's current password
C39_Entitled(req) ==
    /\ req.accessToken /= NoAccessToken
    /\ req.accessToken.sig = "ok"
    /\ now < req.accessToken.exp
    /\ GetUserByID(users, req.accessToken.userId).found
    /\ CheckPasswordHash(req.currentPassword,
                         GetUserByID(users, req.accessToken.userId).row.password)

\* C39: ChangePassword asks for no session.  With a signed, unexpired access
\* token and the user's current password it succeeds and stores the new
\* password, also when the token no longer passes Validate because its
\* session was logged out, rotated by Refresh or replaced by a newer Login.
C39_NoSessionNeeded ==
    \A req \in ChangePasswordRequests :
        C39_Entitled(req) =>
            /\ ChangePasswordOutcome(req).resp.success
            /\ \E u \in Live(ChangePasswordOutcome(req).users) :
                  /\ u.userId = req.accessToken.userId
                  /\ u.password = HashPassword(req.newPassword)

\* a ChangePassword request that succeeds although its token fails Validate
C39_Stale(tok) ==
    /\ ~Validates(tok)
    /\ \E req \in ChangePasswordRequests :
          /\ req.accessToken = tok
          /\ C39_Entitled(req)
          /\ ChangePasswordOutcome(req).resp.success

C39_AfterLogout ==
    \E tok \in issued :
        /\ C39_Stale(tok)
        /\ resp.op = "LogoutUser" /\ resp.req.refreshToken = tok.refreshToken

C39_AfterRefresh ==
    \E tok \in issued :
        /\ C39_Stale(tok)
        /\ resp.op = "RefreshToken" /\ resp.req.refreshToken = tok.refreshToken

C39_AfterLogin ==
    \E tok \in issued :
        /\ C39_Stale(tok)
        /\ resp.op = "LoginUser" /\ resp.user.userId = tok.userId
        /\ resp.refreshToken /= tok.refreshToken

\* the token's session has just been logged out, rotated or replaced, and
\* ChangePassword with it succeeds
C39_Witness == C39_AfterLogout \/ C39_AfterRefresh \/ C39_AfterLogin

\* C40: when ChangePassword's update of the user succeeds and its delete of
\* the user's sessions fails, the call answers success = false, the new
\* password is stored all the same, and every session is left as it was.
C40_NotAtomic ==
    \A req \in ChangePasswordRequests :
        (StoreFails(3) /\ C39_Entitled(req)) =>
            /\ ~ChangePasswordOutcome(req).resp.success
            /\ ChangePasswordOutcome(req).resp.message =
                  "Password changed but failed to invalidate sessions"
            /\ \E u \in Live(ChangePasswordOutcome(req).users) :
                  /\ u.userId = req.accessToken.userId
                  /\ u.password = HashPassword(req.newPassword)
            /\ ChangePasswordOutcome(req).sessions = sessions

\* a ChangePassword has answered that it could not invalidate the sessions:
\* the user's password is the new one, the old one is refused, and the token
\* the call presented still passes Validate
C40_Witness ==
    /\ resp.op = "ChangePassword" /\ ~resp.success
    /\ resp.message = "Password changed but failed to invalidate sessions"
    /\ resp.req.currentPassword /= resp.req.newPassword
    /\ \E u \in Live(users) :
          /\ u.userId = resp.req.accessToken.userId
          /\ u.password = HashPassword(resp.req.newPassword)
    /\ Validates(resp.req.accessToken)


====
